---------------------------- MODULE Spec2Model ----------------------------
(***************************************************************************)
(* Allwinner H3 SD host controller (hw/sd/allwinner-h3-sdhost.c) as a      *)
(* state machine: the device registers, the outgoing IRQ line, guest       *)
(* memory holding the DMA descriptors, and the SD bus as the environment.  *)
(* Beside it the two register files of the board: the clock control unit   *)
(* and the system controller.                                              *)
(*                                                                         *)
(* A 32-bit register value is the set of its set bit positions (0..31):    *)
(* a & b is intersection, a | b is union, ~a is the complement in 0..31.   *)
(* This keeps all 32 bits (bit 31 carries LOAD, CARD_REMOVE and HOLD).     *)
(***************************************************************************)
EXTENDS Integers, Sequences, FiniteSets, TLC

VARIABLES
    s,        \* AwH3SDHostState: the device registers and transfer_cnt
    irq,      \* level last driven on the outgoing IRQ line (qemu_set_irq)
    mem,      \* guest RAM: address -> byte, the non-zero bytes only
    call,     \* the entry point served last and its arguments
    log,      \* what that call did on the SD bus, guest RAM and the IRQ line
    res,      \* value returned by the last MMIO read
    vmsd,     \* the last serialized device state (migration stream)
    nwrites,  \* number of register writes so far, where a run bounds them
    clk,      \* AwH3ClockState.regs: the clock control unit's registers
    syscon    \* AwH3SysconState.regs: the system controller's registers

vars == <<s, irq, mem, call, log, res, vmsd, nwrites, clk, syscon>>

(* The register files beside the SD host controller *)
boards == <<clk, syscon>>

---------------------------------------------------------------------------
(* uint32_t arithmetic on bit sets                                         *)

AllBits == 0..31

And(a, b) == a \cap b

Or(a, b) == a \cup b

Not(a) == AllBits \ a

Zero == {}

(* F applied to the value of x (x is evaluated once) *)
Let(x, F(_)) == CHOOSE r \in {F(v) : v \in {x}} : TRUE

(* The sum of 2^i over the bits i of w in lo..hi *)
SumBits(w, lo, hi) ==
    LET f[i \in lo..(hi + 1)] ==
            IF i > hi THEN 0 ELSE (IF i \in w THEN 2^i ELSE 0) + f[i + 1]
    IN  f[lo]

(* The number a word denotes, for words below 2^31. *)
ToNat(w) == SumBits(w, 0, 30)

(* The word of a number below 2^31. *)
FromNat(n) == {i \in 0..30 : (n \div (2^i)) % 2 = 1}

(* a < b as unsigned 32-bit numbers: they differ, and at the highest      *)
(* differing bit b has the 1.                                              *)
LtU(a, b) == \E i \in b \ a : \A j \in (i + 1)..31 : (j \in a) <=> (j \in b)

Lo16(w) == SumBits(w, 0, 15)

Hi16(w) == SumBits({i - 16 : i \in w \cap (16..31)}, 0, 15)

FromHL(hi, lo) ==
    {i \in 0..15 : (lo \div (2^i)) % 2 = 1}
        \cup {i + 16 : i \in {j \in 0..15 : (hi \div (2^j)) % 2 = 1}}

(* a - b modulo 2^32 *)
SubU(a, b) ==
    LET lo == Lo16(a) - Lo16(b)
        borrow == IF lo < 0 THEN 1 ELSE 0
        hi == Hi16(a) - Hi16(b) - borrow
    IN  FromHL((hi + 65536) % 65536, (lo + 65536) % 65536)

(* byte j (0 = least significant) of a word: (w >> 8j) & 0xff *)
ByteOf(w, j) == SumBits({i - 8 * j : i \in w \cap ((8 * j)..(8 * j + 7))}, 0, 7)

ByteBits(b, j) == {i + 8 * j : i \in {k \in 0..7 : (b \div (2^k)) % 2 = 1}}

(* Mutant: the four bytes are assembled most significant first *)
ldl_le_reversed(b0, b1, b2, b3) ==
    ByteBits(b0, 3) \cup ByteBits(b1, 2) \cup ByteBits(b2, 1) \cup ByteBits(b3, 0)

(* little-endian load of four bytes *)
ldl_le(b0, b1, b2, b3) ==
    ByteBits(b0, 0) \cup ByteBits(b1, 1) \cup ByteBits(b2, 2) \cup ByteBits(b3, 3)

(* big-endian load of the four bytes at p[off], 0-based offset *)
ldl_be_p(p, off) ==
    ByteBits(p[off + 1], 3) \cup ByteBits(p[off + 2], 2)
        \cup ByteBits(p[off + 3], 1) \cup ByteBits(p[off + 4], 0)

---------------------------------------------------------------------------
(* Register offsets *)

REG_SD_GCTL == 0
REG_SD_CKCR == 4
REG_SD_TMOR == 8
REG_SD_BWDR == 12
REG_SD_BKSR == 16
REG_SD_BYCR == 20
REG_SD_CMDR == 24
REG_SD_CAGR == 28
REG_SD_RESP0 == 32
REG_SD_RESP1 == 36
REG_SD_RESP2 == 40
REG_SD_RESP3 == 44
REG_SD_IMKR == 48
REG_SD_MISR == 52
REG_SD_RISR == 56
REG_SD_STAR == 60
REG_SD_FWLR == 64
REG_SD_FUNS == 68
REG_SD_DBGC == 80
REG_SD_A12A == 88
REG_SD_NTSR == 92
REG_SD_SDBG == 96
REG_SD_HWRST == 120
REG_SD_DMAC == 128
REG_SD_DLBA == 132
REG_SD_IDST == 136
REG_SD_IDIE == 140
REG_SD_THLDC == 256
REG_SD_DSBD == 268
REG_SD_RES_CRC == 272
REG_SD_DATA7_CRC == 276
REG_SD_DATA0_CRC == 304
REG_SD_CRC_STA == 308
REG_SD_FIFO == 512

(* Register flags: (1 << n) is {n} *)

SD_GCTL_DMA_ENB == {5}
SD_GCTL_INT_ENB == {4}
SD_GCTL_DMA_RST == {2}
SD_GCTL_FIFO_RST == {1}
SD_GCTL_SOFT_RST == {0}

SD_CMDR_LOAD == {31}
SD_CMDR_CLKCHANGE == {21}
SD_CMDR_WRITE == {10}
SD_CMDR_AUTOSTOP == {12}
SD_CMDR_DATA == {9}
SD_CMDR_RESPONSE_LONG == {7}
SD_CMDR_RESPONSE == {6}
SD_CMDR_CMDID_MASK == 0..5

SD_RISR_CARD_REMOVE == {31}
SD_RISR_CARD_INSERT == {30}
SD_RISR_AUTOCMD_DONE == {14}
SD_RISR_DATA_COMPLETE == {3}
SD_RISR_CMD_COMPLETE == {2}
SD_RISR_NO_RESPONSE == {1}

SD_STAR_CARD_PRESENT == {8}

SD_IDST_SUM_RECEIVE_IRQ == {8}
SD_IDST_RECEIVE_IRQ == {1}
SD_IDST_TRANSMIT_IRQ == {0}
SD_IDST_WR_MASK == 0..9

(* Register reset values *)

REG_SD_GCTL_RST == {8, 9}
REG_SD_TMOR_RST == {6} \cup (8..31)
REG_SD_BKSR_RST == {9}
REG_SD_BYCR_RST == {9}
REG_SD_STAR_RST == {8}
REG_SD_FWLR_RST == 16..19
REG_SD_A12A_RST == 0..15
REG_SD_NTSR_RST == {0}
REG_SD_HWRST_RST == {0}

(* Transfer descriptor flags *)

DESC_STATUS_HOLD == {31}
DESC_STATUS_CHAIN == {4}
DESC_STATUS_FIRST == {3}
DESC_STATUS_LAST == {2}
DESC_STATUS_NOIRQ == {1}
DESC_SIZE_MASK == 2..31

(* sizeof(buf) in aw_h3_sdhost_process_desc *)
BufSize == 1024


---------------------------------------------------------------------------
(* Guest RAM as seen by cpu_physical_memory_read/write.  The board maps   *)
(* 1 GiB of SDRAM at 0x40000000; an access outside it reads 0 and a write *)
(* there is dropped.                                                       *)

RamBase == 2^30

InRam(a) == a >= RamBase

(* A 32-bit address plus a byte offset (hwaddr is 64 bits wide).  -1      *)
(* stands for every address at or above 2^31, which is above the SDRAM.    *)
AddrPlus(w, k) ==
    IF 31 \in w THEN -1
    ELSE LET low == ToNat(w \ {30}) + k
         IN  IF 30 \notin w THEN low
             ELSE IF low >= RamBase THEN -1 ELSE RamBase + low

MemByte(m, a) == IF a \in DOMAIN m THEN m[a] ELSE 0

cpu_physical_memory_read(m, a, n) ==
    [i \in 1..n |-> IF a < 0 THEN 0 ELSE MemByte(m, a + (i - 1))]

cpu_physical_memory_write(m, a, bytes) ==
    IF a < 0 THEN m
    ELSE LET n == Len(bytes)
             val(x) == IF x >= a /\ x < a + n THEN bytes[x - a + 1] ELSE m[x]
             dom == DOMAIN m \cup {x \in a..(a + n - 1) : InRam(x)}
         IN  [x \in {y \in dom : val(y) # 0} |-> val(x)]

(* TransferDescriptor: four little-endian 32-bit fields *)
DescOfBytes(b) ==
    [status |-> ldl_le(b[1], b[2], b[3], b[4]),
     size   |-> ldl_le(b[5], b[6], b[7], b[8]),
     addr   |-> ldl_le(b[9], b[10], b[11], b[12]),
     next   |-> ldl_le(b[13], b[14], b[15], b[16])]

WordBytes(w) == <<ByteOf(w, 0), ByteOf(w, 1), ByteOf(w, 2), ByteOf(w, 3)>>

BytesOfDesc(d) ==
    WordBytes(d.status) \o WordBytes(d.size) \o WordBytes(d.addr) \o WordBytes(d.next)

---------------------------------------------------------------------------
(* The device.  A handler is an operator on the record                     *)
(*   m = [s, irq, mem, log, pos]                                           *)
(* (pos counts the data bytes read from the bus during the call).          *)

ZeroState ==
    [global_ctl |-> Zero, clock_ctl |-> Zero, timeout |-> Zero,
     bus_width |-> Zero, block_size |-> Zero, byte_count |-> Zero,
     transfer_cnt |-> Zero, command |-> Zero, command_arg |-> Zero,
     response |-> <<Zero, Zero, Zero, Zero>>,
     irq_mask |-> Zero, irq_status |-> Zero, status |-> Zero,
     fifo_wlevel |-> Zero, fifo_func_sel |-> Zero, debug_enable |-> Zero,
     auto12_arg |-> Zero, newtiming_set |-> Zero, newtiming_debug |-> Zero,
     hardware_rst |-> Zero, dmac |-> Zero, desc_base |-> Zero,
     dmac_status |-> Zero, dmac_irq |-> Zero, card_threshold |-> Zero,
     startbit_detect |-> Zero, response_crc |-> Zero,
     data_crc |-> <<Zero, Zero, Zero, Zero, Zero, Zero, Zero, Zero>>,
     status_crc |-> Zero]

(* Mutant: transfer_cnt is reset like byte_count *)
reset_cnt_as_byte_count(st) ==
    [st EXCEPT
        !.global_ctl = REG_SD_GCTL_RST,
        !.clock_ctl = Zero,
        !.timeout = REG_SD_TMOR_RST,
        !.bus_width = Zero,
        !.block_size = REG_SD_BKSR_RST,
        !.byte_count = REG_SD_BYCR_RST,
        !.transfer_cnt = REG_SD_BYCR_RST,
        !.command = Zero,
        !.command_arg = Zero,
        !.response = [i \in 1..4 |-> Zero],
        !.irq_mask = Zero,
        !.irq_status = Zero,
        !.status = REG_SD_STAR_RST,
        !.fifo_wlevel = REG_SD_FWLR_RST,
        !.fifo_func_sel = Zero,
        !.debug_enable = Zero,
        !.auto12_arg = REG_SD_A12A_RST,
        !.newtiming_set = REG_SD_NTSR_RST,
        !.newtiming_debug = Zero,
        !.hardware_rst = REG_SD_HWRST_RST,
        !.dmac = Zero,
        !.desc_base = Zero,
        !.dmac_status = Zero,
        !.dmac_irq = Zero,
        !.card_threshold = Zero,
        !.startbit_detect = Zero,
        !.response_crc = Zero,
        !.data_crc = [i \in 1..8 |-> Zero],
        !.status_crc = Zero]

aw_h3_sdhost_reset(st) ==
    [st EXCEPT
        !.global_ctl = REG_SD_GCTL_RST,
        !.clock_ctl = Zero,
        !.timeout = REG_SD_TMOR_RST,
        !.bus_width = Zero,
        !.block_size = REG_SD_BKSR_RST,
        !.byte_count = REG_SD_BYCR_RST,
        !.transfer_cnt = Zero,
        !.command = Zero,
        !.command_arg = Zero,
        !.response = [i \in 1..4 |-> Zero],
        !.irq_mask = Zero,
        !.irq_status = Zero,
        !.status = REG_SD_STAR_RST,
        !.fifo_wlevel = REG_SD_FWLR_RST,
        !.fifo_func_sel = Zero,
        !.debug_enable = Zero,
        !.auto12_arg = REG_SD_A12A_RST,
        !.newtiming_set = REG_SD_NTSR_RST,
        !.newtiming_debug = Zero,
        !.hardware_rst = REG_SD_HWRST_RST,
        !.dmac = Zero,
        !.desc_base = Zero,
        !.dmac_status = Zero,
        !.dmac_irq = Zero,
        !.card_threshold = Zero,
        !.startbit_detect = Zero,
        !.response_crc = Zero,
        !.data_crc = [i \in 1..8 |-> Zero],
        !.status_crc = Zero]

IrqLevel(st) ==
    IF And(st.global_ctl, SD_GCTL_INT_ENB) # Zero
    THEN And(st.irq_status, st.irq_mask)
    ELSE Zero

aw_h3_sdhost_update_irq(m) ==
    LET level == IrqLevel(m.s)
    IN  [m EXCEPT !.irq = level,
                  !.log = Append(@, [ev |-> "set_irq", level |-> level])]

(* Mutant: the subtraction wraps below zero *)
update_transfer_cnt_wrapping(m, bytes) ==
    Let(SubU(m.s.transfer_cnt, bytes),
        LAMBDA cnt :
            [m EXCEPT !.s.transfer_cnt = cnt,
                      !.s.irq_status =
                          IF cnt = Zero
                          THEN Or(@, Or(SD_RISR_DATA_COMPLETE, SD_RISR_AUTOCMD_DONE))
                          ELSE @])

(* Mutant: a count of zero raises DATA_COMPLETE alone *)
update_transfer_cnt_data_only(m, bytes) ==
    Let(IF LtU(bytes, m.s.transfer_cnt)
        THEN SubU(m.s.transfer_cnt, bytes)
        ELSE Zero,
        LAMBDA cnt :
            [m EXCEPT !.s.transfer_cnt = cnt,
                      !.s.irq_status =
                          IF cnt = Zero THEN Or(@, SD_RISR_DATA_COMPLETE) ELSE @])

aw_h3_sdhost_update_transfer_cnt(m, bytes) ==
    Let(IF LtU(bytes, m.s.transfer_cnt)
        THEN SubU(m.s.transfer_cnt, bytes)
        ELSE Zero,
        LAMBDA cnt :
            [m EXCEPT !.s.transfer_cnt = cnt,
                      !.s.irq_status =
                          IF cnt = Zero
                          THEN Or(@, Or(SD_RISR_DATA_COMPLETE, SD_RISR_AUTOCMD_DONE))
                          ELSE @])

(* Mutant: an insertion leaves CARD_REMOVE as it was *)
set_inserted_keeps_remove(m, inserted) ==
    LET m1 == IF inserted
              THEN [m EXCEPT
                      !.s.irq_status = Or(@, SD_RISR_CARD_INSERT),
                      !.s.status = Or(@, SD_STAR_CARD_PRESENT)]
              ELSE [m EXCEPT
                      !.s.irq_status =
                          Or(And(@, Not(SD_RISR_CARD_INSERT)), SD_RISR_CARD_REMOVE),
                      !.s.status = And(@, Not(SD_STAR_CARD_PRESENT))]
    IN  aw_h3_sdhost_update_irq(m1)

(* Mutant: a removal leaves CARD_INSERT as it was *)
set_inserted_keeps_insert(m, inserted) ==
    LET m1 == IF inserted
              THEN [m EXCEPT
                      !.s.irq_status =
                          And(Or(@, SD_RISR_CARD_INSERT), Not(SD_RISR_CARD_REMOVE)),
                      !.s.status = Or(@, SD_STAR_CARD_PRESENT)]
              ELSE [m EXCEPT
                      !.s.irq_status = Or(@, SD_RISR_CARD_REMOVE),
                      !.s.status = And(@, Not(SD_STAR_CARD_PRESENT))]
    IN  aw_h3_sdhost_update_irq(m1)

aw_h3_sdhost_set_inserted(m, inserted) ==
    LET m1 == IF inserted
              THEN [m EXCEPT
                      !.s.irq_status =
                          And(Or(@, SD_RISR_CARD_INSERT), Not(SD_RISR_CARD_REMOVE)),
                      !.s.status = Or(@, SD_STAR_CARD_PRESENT)]
              ELSE [m EXCEPT
                      !.s.irq_status =
                          Or(And(@, Not(SD_RISR_CARD_INSERT)), SD_RISR_CARD_REMOVE),
                      !.s.status = And(@, Not(SD_STAR_CARD_PRESENT))]
    IN  aw_h3_sdhost_update_irq(m1)

(* Mutant: the load flag is left set *)
ClearLoadKept(st) == st

(* Auto clear load flag *)
ClearLoad(st) == [st EXCEPT !.command = And(@, Not(SD_CMDR_LOAD))]

(* Mutant: a clock change is sent to the SD bus like any command *)
SkipsBusNever(st) == FALSE

(* Clock change does not actually interact with the SD bus *)
SkipsBus(st) == And(st.command, SD_CMDR_CLKCHANGE) # Zero

(* Mutant: a completed command withdraws an earlier NO_RESPONSE *)
CmdDoneClearsError(st) ==
    [st EXCEPT !.irq_status =
        Or(And(@, Not(SD_RISR_NO_RESPONSE)), SD_RISR_CMD_COMPLETE)]

(* Set interrupt status bits *)
CmdDone(st) == [st EXCEPT !.irq_status = Or(@, SD_RISR_CMD_COMPLETE)]

(* Mutant: the error label falls through to the completion bit *)
CmdErrorCompletes(st) ==
    [st EXCEPT !.irq_status =
        Or(@, Or(SD_RISR_NO_RESPONSE, SD_RISR_CMD_COMPLETE))]

(* Mutant: the error label reports nothing *)
CmdErrorSilent(st) == st

(* The error label *)
CmdError(st) == [st EXCEPT !.irq_status = Or(@, SD_RISR_NO_RESPONSE)]

(* Mutant: the long response is stored in bus order *)
StoreResponseBusOrder(st, r) ==
    IF r.rlen = 4
    THEN [st EXCEPT !.response = <<ldl_be_p(r.resp, 0), Zero, Zero, Zero>>]
    ELSE [st EXCEPT !.response = <<ldl_be_p(r.resp, 0), ldl_be_p(r.resp, 4),
                                   ldl_be_p(r.resp, 8), ldl_be_p(r.resp, 12)>>]

(* The response registers after a response of rlen bytes was stored *)
StoreResponse(st, r) ==
    IF r.rlen = 4
    THEN [st EXCEPT !.response = <<ldl_be_p(r.resp, 0), Zero, Zero, Zero>>]
    ELSE [st EXCEPT !.response = <<ldl_be_p(r.resp, 12), ldl_be_p(r.resp, 8),
                                   ldl_be_p(r.resp, 4), ldl_be_p(r.resp, 0)>>]

(* Whether the stored-response path jumps to the error label *)
ResponseError(cmd, rlen) ==
    \/ rlen = 0
    \/ (rlen = 4 /\ And(cmd, SD_CMDR_RESPONSE_LONG) # Zero)
    \/ (rlen # 4 /\ rlen # 16)

(* aw_h3_sdhost_send_command from the return of sdbus_do_command on:       *)
(* r.rlen < 0 on failure, else the length of the response r.resp           *)
AfterSubmit(st, r) ==
    IF r.rlen < 0 THEN CmdError(st)
    ELSE IF And(st.command, SD_CMDR_RESPONSE) # Zero
    THEN IF ResponseError(st.command, r.rlen) THEN CmdError(st)
         ELSE CmdDone(StoreResponse(st, r))
    ELSE CmdDone(st)

(* r is what sdbus_do_command returns.  A submit event records the request, *)
(* the reply, and the registers before and after the reply was handled.    *)
aw_h3_sdhost_send_command(m, r) ==
    Let(ClearLoad(m.s),
        LAMBDA st :
            IF SkipsBus(st)
            THEN [m EXCEPT !.s = CmdDone(st)]
            ELSE Let(AfterSubmit(st, r),
                     LAMBDA out :
                        [m EXCEPT
                            !.s = out,
                            !.log = Append(@,
                                [ev |-> "submit",
                                 cmd |-> ToNat(And(st.command, SD_CMDR_CMDID_MASK)),
                                 arg |-> st.command_arg,
                                 rlen |-> r.rlen, resp |-> r.resp,
                                 before |-> st, after |-> out])]))

(* Mutant: the stop command does not wait for the transfer count *)
AutoStopAlways(st) == And(st.command, SD_CMDR_AUTOSTOP) # Zero

(* Whether aw_h3_sdhost_auto_stop issues the stop command *)
AutoStopDue(st) ==
    And(st.command, SD_CMDR_AUTOSTOP) # Zero /\ st.transfer_cnt = Zero

(* Mutant: the command registers are left as the stop command set them *)
auto_stop_without_restore(m, r) ==
    IF AutoStopDue(m.s)
    THEN aw_h3_sdhost_send_command(
            [m EXCEPT
                !.s.command = Or(And(@, Not(SD_CMDR_CMDID_MASK)), FromNat(12)),
                !.s.command_arg = Zero], r)
    ELSE m

aw_h3_sdhost_auto_stop(m, r) ==
    IF AutoStopDue(m.s)
    THEN LET saved_cmd == m.s.command
             saved_arg == m.s.command_arg
             m1 == [m EXCEPT
                      !.s.command = Or(And(@, Not(SD_CMDR_CMDID_MASK)), FromNat(12)),
                      !.s.command_arg = Zero]
             m2 == aw_h3_sdhost_send_command(m1, r)
         IN  [m2 EXCEPT !.s.command = saved_cmd, !.s.command_arg = saved_arg]
    ELSE m

---------------------------------------------------------------------------
(* The SD bus.  sdbus_read_data returns the bytes of the card's data, here *)
(* a repeating pattern d; byte k (from 0) of the call's reads is d[k mod   *)
(* Len(d)].                                                                *)

StreamByte(d, k) == d[(k % Len(d)) + 1]

(* One pass of the while (num_done < num_bytes) loop of                     *)
(* aw_h3_sdhost_process_desc: buf_bytes bytes to or from address a         *)
CopyChunk(m, a, buf_bytes, is_write, d) ==
    IF is_write
    THEN Let(cpu_physical_memory_read(m.mem, a, buf_bytes),
             LAMBDA buf :
                [m EXCEPT !.log = @ \o
                    <<[ev |-> "mem_read", addr |-> a, len |-> buf_bytes],
                      [ev |-> "write_data", data |-> buf]>>])
    ELSE Let([i \in 1..buf_bytes |-> StreamByte(d, m.pos + (i - 1))],
             LAMBDA buf :
                [m EXCEPT !.log = @ \o
                    <<[ev |-> "read_data", data |-> buf],
                      [ev |-> "mem_write", addr |-> a, data |-> buf]>>,
                          !.mem = cpu_physical_memory_write(@, a, buf),
                          !.pos = @ + buf_bytes])

(* Mutant: the low two bits of the buffer address are used *)
BufAddrUnmasked(desc) == desc.addr

(* desc->addr & DESC_SIZE_MASK *)
BufAddr(desc) == And(desc.addr, DESC_SIZE_MASK)

RECURSIVE CopyPasses(_, _, _, _, _, _, _)
(* Passes lo..hi of the while (num_done < num_bytes) loop, in order.  Pass *)
(* c (from 0) starts with num_done = c * sizeof(buf), every pass before it *)
(* having filled the buffer.  The range is split in halves to keep the     *)
(* evaluation shallow; the passes are applied first to last.               *)
CopyPasses(m, desc, is_write, num_bytes, lo, hi, d) ==
    IF lo = hi
    THEN Let(lo * BufSize,
             LAMBDA num_done :
                CopyChunk(m, AddrPlus(BufAddr(desc), num_done),
                          IF num_bytes - num_done > BufSize
                          THEN BufSize ELSE num_bytes - num_done,
                          is_write, d))
    ELSE Let((lo + hi) \div 2,
             LAMBDA mid :
                Let(CopyPasses(m, desc, is_write, num_bytes, lo, mid, d),
                    LAMBDA m1 :
                        CopyPasses(m1, desc, is_write, num_bytes, mid + 1, hi, d)))

(* The while (num_done < num_bytes) loop of aw_h3_sdhost_process_desc,     *)
(* entered with num_done = 0: ceil(num_bytes / sizeof(buf)) passes         *)
CopyLoop(m, desc, is_write, num_bytes, d) ==
    IF ~(0 < num_bytes) THEN m
    ELSE CopyPasses(m, desc, is_write, num_bytes, 0, (num_bytes - 1) \div BufSize, d)

(* Mutant: a size of 0 is read as 0xffff *)
ReadDescShort(memory, a) ==
    Let(DescOfBytes(cpu_physical_memory_read(memory, a, 16)),
        LAMBDA raw : IF raw.size = Zero THEN [raw EXCEPT !.size = 0..15] ELSE raw)

(* The descriptor as aw_h3_sdhost_process_desc holds it after reading it   *)
ReadDesc(memory, a) ==
    Let(DescOfBytes(cpu_physical_memory_read(memory, a, 16)),
        LAMBDA raw : IF raw.size = Zero THEN [raw EXCEPT !.size = {16}] ELSE raw)

(* Clear hold flag and flush descriptor *)
FlushDesc(m, a, desc) ==
    Let(BytesOfDesc(desc),
        LAMBDA bytes :
            [m EXCEPT
                !.mem = cpu_physical_memory_write(@, a, bytes),
                !.log = Append(@, [ev |-> "mem_write", addr |-> a, data |-> bytes])])

(* Mutant: the pass reports max_bytes as done, whatever the descriptor held *)
ProcessDescReturnsMax(m, a, desc0, is_write, max_bytes, d) ==
    Let(ToNat(IF LtU(desc0.size, max_bytes) THEN desc0.size ELSE max_bytes),
        LAMBDA n :
          Let([desc0 EXCEPT !.status = And(@, Not(DESC_STATUS_HOLD))],
              LAMBDA desc1 :
                [m |-> FlushDesc(
                          CopyLoop([m EXCEPT !.log = Append(@,
                                       [ev |-> "mem_read", addr |-> a, len |-> 16])],
                                   desc0, is_write, n, d),
                          a, desc1),
                 desc |-> desc1,
                 num_done |-> ToNat(max_bytes)]))

ProcessDescAt(m, a, desc0, is_write, max_bytes, d) ==
    Let(ToNat(IF LtU(desc0.size, max_bytes) THEN desc0.size ELSE max_bytes),
        LAMBDA n :
          Let([desc0 EXCEPT !.status = And(@, Not(DESC_STATUS_HOLD))],
              LAMBDA desc1 :
                [m |-> FlushDesc(
                          CopyLoop([m EXCEPT !.log = Append(@,
                                       [ev |-> "mem_read", addr |-> a, len |-> 16])],
                                   desc0, is_write, n, d),
                          a, desc1),
                 desc |-> desc1,
                 num_done |-> n]))

(* Returns the machine, the descriptor as written back and num_done.       *)
(* max_bytes is below 2^31 in every run of this model.                     *)
aw_h3_sdhost_process_desc(m, desc_addr, is_write, max_bytes, d) ==
    Let(AddrPlus(desc_addr, 0),
        LAMBDA a :
          Let(ReadDesc(m.mem, a),
              LAMBDA desc0 : ProcessDescAt(m, a, desc0, is_write, max_bytes, d)))

(* Mutant: a pass lowers byte_count and leaves transfer_cnt as it was *)
AfterDescKeepsCount(m, bytes_done) ==
    [m EXCEPT !.s.byte_count =
        IF ~LtU(@, bytes_done) THEN SubU(@, bytes_done) ELSE Zero]

(* The rest of one pass of the while loop of aw_h3_sdhost_dma, after       *)
(* aw_h3_sdhost_process_desc returned bytes_done                           *)
AfterDesc(m, bytes_done) ==
    Let(aw_h3_sdhost_update_transfer_cnt(m, bytes_done),
        LAMBDA m1 :
            [m1 EXCEPT !.s.byte_count =
                IF ~LtU(@, bytes_done) THEN SubU(@, bytes_done) ELSE Zero])

RECURSIVE DmaLoopStopsOnChainEnd(_, _, _, _)
(* Mutant: the walk ends at the first descriptor without CHAIN *)
DmaLoopStopsOnChainEnd(m, desc_addr, is_write, d) ==
    IF m.s.byte_count = Zero THEN m
    ELSE
      Let(aw_h3_sdhost_process_desc(m, desc_addr, is_write, m.s.byte_count, d),
          LAMBDA p :
            Let(AfterDesc(p.m, FromNat(p.num_done)),
                LAMBDA m2 :
                    IF And(p.desc.status, DESC_STATUS_CHAIN) = Zero
                    THEN m2
                    ELSE DmaLoopStopsOnChainEnd(m2, p.desc.next, is_write, d)))

RECURSIVE DmaLoop(_, _, _, _)
(* The while (s->byte_count > 0) loop of aw_h3_sdhost_dma *)
DmaLoop(m, desc_addr, is_write, d) ==
    IF m.s.byte_count = Zero THEN m
    ELSE
      Let(aw_h3_sdhost_process_desc(m, desc_addr, is_write, m.s.byte_count, d),
          LAMBDA p :
            Let(AfterDesc(p.m, FromNat(p.num_done)),
                LAMBDA m2 :
                    IF And(p.desc.status, DESC_STATUS_LAST) # Zero
                    THEN m2
                    ELSE DmaLoop(m2, p.desc.next, is_write, d)))

(* sdbus_data_ready was called and answered ready *)
AskReady(m, ready) ==
    [m EXCEPT !.log = Append(@, [ev |-> "data_ready", ready |-> ready])]

(* Mutant: the test leaves the block size out *)
DmaPossibleAnyBlock(st) ==
    ~(\/ st.byte_count = Zero
      \/ And(st.global_ctl, SD_GCTL_DMA_ENB) = Zero)

(* Mutant: the test leaves the byte count out *)
DmaPossibleAnyCount(st) ==
    ~(\/ st.block_size = Zero
      \/ And(st.global_ctl, SD_GCTL_DMA_ENB) = Zero)

(* The "Check if DMA can be performed" test *)
DmaPossible(st) ==
    ~(\/ st.byte_count = Zero
      \/ st.block_size = Zero
      \/ And(st.global_ctl, SD_GCTL_DMA_ENB) = Zero)

(* Mutant: the end of a walk is signalled as a transmit in both directions *)
dma_signals_transmit(m, ready, d) ==
    LET is_write == And(m.s.command, SD_CMDR_WRITE) # Zero
    IN  IF ~DmaPossible(m.s) THEN m
        ELSE IF ~is_write /\ ~ready THEN AskReady(m, ready)
        ELSE
          Let(DmaLoop(IF is_write THEN m ELSE AskReady(m, ready),
                      m.s.desc_base, is_write, d),
              LAMBDA m1 :
                [m1 EXCEPT
                    !.s.irq_status =
                        Or(@, Or(SD_RISR_DATA_COMPLETE, SD_RISR_AUTOCMD_DONE)),
                    !.s.dmac_status = Or(@, SD_IDST_TRANSMIT_IRQ)])

(* ready is what sdbus_data_ready returns *)
aw_h3_sdhost_dma(m, ready, d) ==
    LET is_write == And(m.s.command, SD_CMDR_WRITE) # Zero
    IN  IF ~DmaPossible(m.s) THEN m
        ELSE IF ~is_write /\ ~ready THEN AskReady(m, ready)
        ELSE
          Let(DmaLoop(IF is_write THEN m ELSE AskReady(m, ready),
                      m.s.desc_base, is_write, d),
              LAMBDA m1 :
                [m1 EXCEPT
                    !.s.irq_status =
                        Or(@, Or(SD_RISR_DATA_COMPLETE, SD_RISR_AUTOCMD_DONE)),
                    !.s.dmac_status =
                        IF is_write
                        THEN Or(@, SD_IDST_TRANSMIT_IRQ)
                        ELSE Or(@, Or(SD_IDST_SUM_RECEIVE_IRQ, SD_IDST_RECEIVE_IRQ))])

---------------------------------------------------------------------------
(* MMIO *)

CrcDataOffsets == {REG_SD_DATA7_CRC + 4 * i : i \in 0..7}

(* Mutant: the written value replaces the register *)
W1CStore(old, value) == value

(* Write-one-to-clear: old &= ~value *)
W1C(old, value) == And(old, Not(value))

(* Mutant: a write to the hardware reset register resets the device *)
WriteHwrstResets(m, value) ==
    [m EXCEPT !.s = [aw_h3_sdhost_reset(@) EXCEPT !.hardware_rst = value]]

(* The REG_SD_HWRST arm of aw_h3_sdhost_write *)
WriteHwrst(m, value) == [m EXCEPT !.s.hardware_rst = value]

(* Mutant: the status is cleared by every bit of the value, masked or not *)
WriteIdstUnmasked(old, value) == And(old, Not(value))

(* The REG_SD_IDST arm of aw_h3_sdhost_write: the new dmac_status *)
WriteIdst(old, value) ==
    And(old, Or(Not(SD_IDST_WR_MASK), And(Not(value), SD_IDST_WR_MASK)))

(* Mutant: the byte count is stored without restarting the transfer count *)
WriteBycrOnly(st, value) == [st EXCEPT !.byte_count = value]

(* The REG_SD_BYCR arm of aw_h3_sdhost_write *)
WriteBycr(st, value) == [st EXCEPT !.byte_count = value, !.transfer_cnt = value]

(* Mutant: the value is sent most-significant byte first *)
FifoBytesBigEndian(value) ==
    <<ByteOf(value, 3), ByteOf(value, 2), ByteOf(value, 1), ByteOf(value, 0)>>

(* The four sdbus_write_data arguments of the REG_SD_FIFO arm of           *)
(* aw_h3_sdhost_write, in call order                                       *)
FifoBytes(value) ==
    <<ByteOf(value, 0), ByteOf(value, 1), ByteOf(value, 2), ByteOf(value, 3)>>

(* Mutant: the FIFO is read whether or not data is ready *)
FifoReadyAlways(ready) == TRUE

(* The test of the REG_SD_FIFO arm of aw_h3_sdhost_read on the answer of   *)
(* sdbus_data_ready                                                        *)
FifoReady(ready) == ready

(* Mutant: a write to a CRC register is stored *)
WriteCrcStores(m, offset, value) ==
    IF offset = REG_SD_RES_CRC THEN [m EXCEPT !.s.response_crc = value]
    ELSE IF offset = REG_SD_CRC_STA THEN [m EXCEPT !.s.status_crc = value]
    ELSE [m EXCEPT !.s.data_crc[((offset - REG_SD_DATA7_CRC) \div 4) + 1] = value]

(* The arm of aw_h3_sdhost_write for the CRC registers: break *)
WriteCrc(m, offset, value) == m

(* The environment of one call: e.r1 answers the command's submit, e.ready *)
(* is sdbus_data_ready, e.d the card's data, e.r2 answers the stop command *)

(* Mutant: the DMA walk runs before the command is sent *)
WriteCmdrDmaFirst(m, value, e) ==
    LET m0 == [m EXCEPT !.s.command = value]
    IN  IF And(value, SD_CMDR_LOAD) # Zero
        THEN LET m1 == aw_h3_sdhost_dma(m0, e.ready, e.d)
                 m2 == aw_h3_sdhost_send_command(m1, e.r1)
                 m3 == aw_h3_sdhost_auto_stop(m2, e.r2)
             IN  aw_h3_sdhost_update_irq(m3)
        ELSE aw_h3_sdhost_update_irq(m0)

(* case REG_SD_CMDR of aw_h3_sdhost_write: e.r1 answers the guest's        *)
(* command, e.ready and e.d the DMA engine, e.r2 the stop command          *)
WriteCmdr(m, value, e) ==
    LET m0 == [m EXCEPT !.s.command = value]
    IN  IF And(value, SD_CMDR_LOAD) # Zero
        THEN LET m1 == aw_h3_sdhost_send_command(m0, e.r1)
                 m2 == aw_h3_sdhost_dma(m1, e.ready, e.d)
                 m3 == aw_h3_sdhost_auto_stop(m2, e.r2)
             IN  aw_h3_sdhost_update_irq(m3)
        ELSE aw_h3_sdhost_update_irq(m0)

(* Returns the machine and the value read *)
aw_h3_sdhost_read(m, offset, e) ==
    LET plain(v) == [m |-> m, res |-> v]
    IN  CASE offset = REG_SD_GCTL -> plain(m.s.global_ctl)
          [] offset = REG_SD_CKCR -> plain(m.s.clock_ctl)
          [] offset = REG_SD_TMOR -> plain(m.s.timeout)
          [] offset = REG_SD_BWDR -> plain(m.s.bus_width)
          [] offset = REG_SD_BKSR -> plain(m.s.block_size)
          [] offset = REG_SD_BYCR -> plain(m.s.byte_count)
          [] offset = REG_SD_CMDR -> plain(m.s.command)
          [] offset = REG_SD_CAGR -> plain(m.s.command_arg)
          [] offset = REG_SD_RESP0 -> plain(m.s.response[1])
          [] offset = REG_SD_RESP1 -> plain(m.s.response[2])
          [] offset = REG_SD_RESP2 -> plain(m.s.response[3])
          [] offset = REG_SD_RESP3 -> plain(m.s.response[4])
          [] offset = REG_SD_IMKR -> plain(m.s.irq_mask)
          [] offset = REG_SD_MISR -> plain(And(m.s.irq_status, m.s.irq_mask))
          [] offset = REG_SD_RISR -> plain(m.s.irq_status)
          [] offset = REG_SD_STAR -> plain(m.s.status)
          [] offset = REG_SD_FWLR -> plain(m.s.fifo_wlevel)
          [] offset = REG_SD_FUNS -> plain(m.s.fifo_func_sel)
          [] offset = REG_SD_DBGC -> plain(m.s.debug_enable)
          [] offset = REG_SD_A12A -> plain(m.s.auto12_arg)
          [] offset = REG_SD_NTSR -> plain(m.s.newtiming_set)
          [] offset = REG_SD_SDBG -> plain(m.s.newtiming_debug)
          [] offset = REG_SD_HWRST -> plain(m.s.hardware_rst)
          [] offset = REG_SD_DMAC -> plain(m.s.dmac)
          [] offset = REG_SD_DLBA -> plain(m.s.desc_base)
          [] offset = REG_SD_IDST -> plain(m.s.dmac_status)
          [] offset = REG_SD_IDIE -> plain(m.s.dmac_irq)
          [] offset = REG_SD_THLDC -> plain(m.s.card_threshold)
          [] offset = REG_SD_DSBD -> plain(m.s.startbit_detect)
          [] offset = REG_SD_RES_CRC -> plain(m.s.response_crc)
          [] offset \in CrcDataOffsets ->
                plain(m.s.data_crc[((offset - REG_SD_DATA7_CRC) \div 4) + 1])
          [] offset = REG_SD_CRC_STA -> plain(m.s.status_crc)
          [] offset = REG_SD_FIFO ->
                IF FifoReady(e.ready)
                THEN LET b(k) == StreamByte(e.d, m.pos + k)
                         m0 == AskReady(m, e.ready)
                         m1 == [m0 EXCEPT
                                  !.log = Append(@, [ev |-> "read_data",
                                              data |-> <<b(0), b(1), b(2), b(3)>>]),
                                  !.pos = @ + 4]
                         m2 == aw_h3_sdhost_update_transfer_cnt(m1, FromNat(4))
                         m3 == aw_h3_sdhost_auto_stop(m2, e.r2)
                     IN  [m |-> aw_h3_sdhost_update_irq(m3),
                          res |-> ldl_le(b(0), b(1), b(2), b(3))]
                ELSE [m |-> AskReady(m, e.ready), res |-> Zero]
          [] OTHER -> plain(Zero)

aw_h3_sdhost_write(m, offset, value, e) ==
    CASE offset = REG_SD_GCTL ->
            aw_h3_sdhost_update_irq(
                [m EXCEPT !.s.global_ctl =
                    And(value, Not(Or(SD_GCTL_DMA_RST,
                                      Or(SD_GCTL_FIFO_RST, SD_GCTL_SOFT_RST))))])
      [] offset = REG_SD_CKCR -> [m EXCEPT !.s.clock_ctl = value]
      [] offset = REG_SD_TMOR -> [m EXCEPT !.s.timeout = value]
      [] offset = REG_SD_BWDR -> [m EXCEPT !.s.bus_width = value]
      [] offset = REG_SD_BKSR -> [m EXCEPT !.s.block_size = value]
      [] offset = REG_SD_BYCR -> [m EXCEPT !.s = WriteBycr(@, value)]
      [] offset = REG_SD_CMDR -> WriteCmdr(m, value, e)
      [] offset = REG_SD_CAGR -> [m EXCEPT !.s.command_arg = value]
      [] offset = REG_SD_RESP0 -> [m EXCEPT !.s.response[1] = value]
      [] offset = REG_SD_RESP1 -> [m EXCEPT !.s.response[2] = value]
      [] offset = REG_SD_RESP2 -> [m EXCEPT !.s.response[3] = value]
      [] offset = REG_SD_RESP3 -> [m EXCEPT !.s.response[4] = value]
      [] offset = REG_SD_IMKR ->
            aw_h3_sdhost_update_irq([m EXCEPT !.s.irq_mask = value])
      [] offset \in {REG_SD_MISR, REG_SD_RISR} ->
            aw_h3_sdhost_update_irq(
                [m EXCEPT !.s.irq_status = W1C(@, value)])
      [] offset = REG_SD_STAR ->
            aw_h3_sdhost_update_irq([m EXCEPT !.s.status = W1C(@, value)])
      [] offset = REG_SD_FWLR -> [m EXCEPT !.s.fifo_wlevel = value]
      [] offset = REG_SD_FUNS -> [m EXCEPT !.s.fifo_func_sel = value]
      [] offset = REG_SD_DBGC -> [m EXCEPT !.s.debug_enable = value]
      [] offset = REG_SD_A12A -> [m EXCEPT !.s.auto12_arg = value]
      [] offset = REG_SD_NTSR -> [m EXCEPT !.s.newtiming_set = value]
      [] offset = REG_SD_SDBG -> [m EXCEPT !.s.newtiming_debug = value]
      [] offset = REG_SD_HWRST -> WriteHwrst(m, value)
      [] offset = REG_SD_DMAC ->
            aw_h3_sdhost_update_irq([m EXCEPT !.s.dmac = value])
      [] offset = REG_SD_DLBA -> [m EXCEPT !.s.desc_base = value]
      [] offset = REG_SD_IDST ->
            aw_h3_sdhost_update_irq(
                [m EXCEPT !.s.dmac_status = WriteIdst(@, value)])
      [] offset = REG_SD_IDIE ->
            aw_h3_sdhost_update_irq([m EXCEPT !.s.dmac_irq = value])
      [] offset = REG_SD_THLDC -> [m EXCEPT !.s.card_threshold = value]
      [] offset = REG_SD_DSBD -> [m EXCEPT !.s.startbit_detect = value]
      [] offset = REG_SD_FIFO ->
            LET m1 == [m EXCEPT !.log = Append(@, [ev |-> "write_data",
                                                   data |-> FifoBytes(value)])]
                m2 == aw_h3_sdhost_update_transfer_cnt(m1, FromNat(4))
                m3 == aw_h3_sdhost_auto_stop(m2, e.r2)
            IN  aw_h3_sdhost_update_irq(m3)
      [] offset \in {REG_SD_RES_CRC, REG_SD_CRC_STA} \cup CrcDataOffsets ->
            WriteCrc(m, offset, value)
      [] OTHER -> m

---------------------------------------------------------------------------
(* Migration: vmstate_aw_h3_sdhost lists the fields in stream order *)

VmVersion == 1

(* Mutant: transfer_cnt is left out of the stream, its place taken by       *)
(* byte_count                                                              *)
vmstate_save_without_cnt(st) ==
    [version |-> VmVersion,
     data |-> <<st.global_ctl, st.clock_ctl, st.timeout, st.bus_width,
                st.block_size, st.byte_count, st.byte_count, st.command,
                st.command_arg>>
              \o st.response
              \o <<st.irq_mask, st.irq_status, st.status, st.fifo_wlevel,
                   st.fifo_func_sel, st.debug_enable, st.auto12_arg,
                   st.newtiming_set, st.newtiming_debug, st.hardware_rst,
                   st.dmac, st.desc_base, st.dmac_status, st.dmac_irq,
                   st.card_threshold, st.startbit_detect, st.response_crc>>
              \o st.data_crc
              \o <<st.status_crc>>]

vmstate_save(st) ==
    [version |-> VmVersion,
     data |-> <<st.global_ctl, st.clock_ctl, st.timeout, st.bus_width,
                st.block_size, st.byte_count, st.transfer_cnt, st.command,
                st.command_arg>>
              \o st.response
              \o <<st.irq_mask, st.irq_status, st.status, st.fifo_wlevel,
                   st.fifo_func_sel, st.debug_enable, st.auto12_arg,
                   st.newtiming_set, st.newtiming_debug, st.hardware_rst,
                   st.dmac, st.desc_base, st.dmac_status, st.dmac_irq,
                   st.card_threshold, st.startbit_detect, st.response_crc>>
              \o st.data_crc
              \o <<st.status_crc>>]

vmstate_load(st, v) ==
    LET d == v.data
    IN  [st EXCEPT
            !.global_ctl = d[1], !.clock_ctl = d[2], !.timeout = d[3],
            !.bus_width = d[4], !.block_size = d[5], !.byte_count = d[6],
            !.transfer_cnt = d[7], !.command = d[8], !.command_arg = d[9],
            !.response = SubSeq(d, 10, 13),
            !.irq_mask = d[14], !.irq_status = d[15], !.status = d[16],
            !.fifo_wlevel = d[17], !.fifo_func_sel = d[18],
            !.debug_enable = d[19], !.auto12_arg = d[20],
            !.newtiming_set = d[21], !.newtiming_debug = d[22],
            !.hardware_rst = d[23], !.dmac = d[24], !.desc_base = d[25],
            !.dmac_status = d[26], !.dmac_irq = d[27],
            !.card_threshold = d[28], !.startbit_detect = d[29],
            !.response_crc = d[30],
            !.data_crc = SubSeq(d, 31, 38),
            !.status_crc = d[39]]

---------------------------------------------------------------------------
(* The clock control unit: a register file of AW_H3_CLK_REGS_NUM words *)

REG_PLL_CPUX == 0
REG_PLL_AUDIO == 8
REG_PLL_VIDEO == 16
REG_PLL_VE == 24
REG_PLL_DDR == 32
REG_PLL_PERIPH0 == 40
REG_PLL_GPU == 56
REG_PLL_PERIPH1 == 68
REG_PLL_DE == 72
REG_CPUX_AXI == 80
REG_APB1 == 84
REG_APB2 == 88
REG_MBUS == 252
REG_PLL_TIME0 == 512
REG_PLL_TIME1 == 516
REG_PLL_CPUX_BIAS == 544
REG_PLL_AUDIO_BIAS == 548
REG_PLL_VIDEO_BIAS == 552
REG_PLL_VE_BIAS == 556
REG_PLL_DDR_BIAS == 560
REG_PLL_PERIPH0_BIAS == 564
REG_PLL_GPU_BIAS == 572
REG_PLL_PERIPH1_BIAS == 580
REG_PLL_DE_BIAS == 584
REG_PLL_CPUX_TUNING == 592
REG_PLL_DDR_TUNING == 608

(* offset / sizeof(uint32_t) *)
REG_INDEX(offset) == offset \div 4

REG_PLL_ENABLE == {31}
REG_PLL_LOCK == {28}

(* The reset values; the two above 2^31 as their halves *)
REG_PLL_CPUX_RST == 4096
REG_PLL_AUDIO_RST == 218388
REG_PLL_VIDEO_RST == 50356743
REG_PLL_VE_RST == 50356743
REG_PLL_DDR_RST == 4096
REG_PLL_PERIPH0_RST == 268305
REG_PLL_GPU_RST == 50356743
REG_PLL_PERIPH1_RST == 268305
REG_PLL_DE_RST == 50356743
REG_CPUX_AXI_RST == 65536
REG_APB1_RST == 4112
REG_APB2_RST == 16777216
REG_MBUS_RST == FromHL(32768, 0)
REG_PLL_TIME0_RST == 255
REG_PLL_TIME1_RST == 255
REG_PLL_CPUX_BIAS_RST == 135266816
REG_PLL_AUDIO_BIAS_RST == 269484032
REG_PLL_VIDEO_BIAS_RST == 269484032
REG_PLL_VE_BIAS_RST == 269484032
REG_PLL_DDR_BIAS_RST == FromHL(33040, 16384)
REG_PLL_PERIPH0_BIAS_RST == 269484048
REG_PLL_GPU_BIAS_RST == 269484032
REG_PLL_PERIPH1_BIAS_RST == 269484048
REG_PLL_DE_BIAS_RST == 269484032
REG_PLL_CPUX_TUNING_RST == 168824832
REG_PLL_DDR_TUNING_RST == 344457216

(* Highest register address of the unit, and the number of its registers *)
AW_H3_CCU_REGS_MAXADDR == 772

AW_H3_CLK_REGS_NUM == AW_H3_CCU_REGS_MAXADDR \div 4

(* A register file right after the object was allocated *)
ZeroRegs(n) == [i \in 0..(n - 1) |-> Zero]

(* The case labels of the write handler: the PLL control registers *)
PllControl ==
    {REG_PLL_CPUX, REG_PLL_AUDIO, REG_PLL_VIDEO, REG_PLL_VE, REG_PLL_DDR,
     REG_PLL_PERIPH0, REG_PLL_GPU, REG_PLL_PERIPH1, REG_PLL_DE}

allwinner_h3_clk_read(regs, offset) ==
    LET idx == REG_INDEX(offset)
    IN  IF idx >= AW_H3_CLK_REGS_NUM THEN Zero ELSE regs[idx]

(* The write handler with the lock raised whatever the value says *)
clk_write_locks_always(regs, offset, val) ==
    LET idx == REG_INDEX(offset)
    IN  IF idx >= AW_H3_CLK_REGS_NUM THEN regs
        ELSE [regs EXCEPT ![idx] =
                IF offset \in PllControl THEN Or(val, REG_PLL_LOCK) ELSE val]

allwinner_h3_clk_write(regs, offset, val) ==
    LET idx == REG_INDEX(offset)
    IN  IF idx >= AW_H3_CLK_REGS_NUM THEN regs
        ELSE [regs EXCEPT ![idx] =
                IF offset \in PllControl /\ And(val, REG_PLL_ENABLE) # Zero
                THEN Or(val, REG_PLL_LOCK)
                ELSE val]

allwinner_h3_clk_reset(regs) ==
    [regs EXCEPT
        ![REG_INDEX(REG_PLL_CPUX)] = FromNat(REG_PLL_CPUX_RST),
        ![REG_INDEX(REG_PLL_AUDIO)] = FromNat(REG_PLL_AUDIO_RST),
        ![REG_INDEX(REG_PLL_VIDEO)] = FromNat(REG_PLL_VIDEO_RST),
        ![REG_INDEX(REG_PLL_VE)] = FromNat(REG_PLL_VE_RST),
        ![REG_INDEX(REG_PLL_DDR)] = FromNat(REG_PLL_DDR_RST),
        ![REG_INDEX(REG_PLL_PERIPH0)] = FromNat(REG_PLL_PERIPH0_RST),
        ![REG_INDEX(REG_PLL_GPU)] = FromNat(REG_PLL_GPU_RST),
        ![REG_INDEX(REG_PLL_PERIPH1)] = FromNat(REG_PLL_PERIPH1_RST),
        ![REG_INDEX(REG_PLL_DE)] = FromNat(REG_PLL_DE_RST),
        ![REG_INDEX(REG_CPUX_AXI)] = FromNat(REG_CPUX_AXI_RST),
        ![REG_INDEX(REG_APB1)] = FromNat(REG_APB1_RST),
        ![REG_INDEX(REG_APB2)] = FromNat(REG_APB2_RST),
        ![REG_INDEX(REG_MBUS)] = REG_MBUS_RST,
        ![REG_INDEX(REG_PLL_TIME0)] = FromNat(REG_PLL_TIME0_RST),
        ![REG_INDEX(REG_PLL_TIME1)] = FromNat(REG_PLL_TIME1_RST),
        ![REG_INDEX(REG_PLL_CPUX_BIAS)] = FromNat(REG_PLL_CPUX_BIAS_RST),
        ![REG_INDEX(REG_PLL_AUDIO_BIAS)] = FromNat(REG_PLL_AUDIO_BIAS_RST),
        ![REG_INDEX(REG_PLL_VIDEO_BIAS)] = FromNat(REG_PLL_VIDEO_BIAS_RST),
        ![REG_INDEX(REG_PLL_VE_BIAS)] = FromNat(REG_PLL_VE_BIAS_RST),
        ![REG_INDEX(REG_PLL_DDR_BIAS)] = REG_PLL_DDR_BIAS_RST,
        ![REG_INDEX(REG_PLL_PERIPH0_BIAS)] = FromNat(REG_PLL_PERIPH0_BIAS_RST),
        ![REG_INDEX(REG_PLL_GPU_BIAS)] = FromNat(REG_PLL_GPU_BIAS_RST),
        ![REG_INDEX(REG_PLL_PERIPH1_BIAS)] = FromNat(REG_PLL_PERIPH1_BIAS_RST),
        ![REG_INDEX(REG_PLL_DE_BIAS)] = FromNat(REG_PLL_DE_BIAS_RST),
        ![REG_INDEX(REG_PLL_CPUX_TUNING)] = FromNat(REG_PLL_CPUX_TUNING_RST),
        ![REG_INDEX(REG_PLL_DDR_TUNING)] = FromNat(REG_PLL_DDR_TUNING_RST)]

---------------------------------------------------------------------------
(* The system controller: a register file of AW_H3_SYSCON_REGS_NUM words *)

REG_VER == 36
REG_EMAC_PHY_CLK == 48

REG_VER_RST == 0
REG_EMAC_PHY_CLK_RST == 360448

(* The registers run up to and including REG_EMAC_PHY_CLK *)
AW_H3_SYSCON_REGS_NUM == 13

allwinner_h3_syscon_read(regs, offset) ==
    LET idx == REG_INDEX(offset)
    IN  IF idx >= AW_H3_SYSCON_REGS_NUM THEN Zero ELSE regs[idx]

(* The write handler without the case for the version register *)
syscon_write_stores_ver(regs, offset, val) ==
    LET idx == REG_INDEX(offset)
    IN  IF idx >= AW_H3_SYSCON_REGS_NUM THEN regs
        ELSE [regs EXCEPT ![idx] = val]

allwinner_h3_syscon_write(regs, offset, val) ==
    LET idx == REG_INDEX(offset)
    IN  IF idx >= AW_H3_SYSCON_REGS_NUM THEN regs
        ELSE IF offset = REG_VER THEN regs
        ELSE [regs EXCEPT ![idx] = val]

allwinner_h3_syscon_reset(regs) ==
    [regs EXCEPT
        ![REG_INDEX(REG_VER)] = FromNat(REG_VER_RST),
        ![REG_INDEX(REG_EMAC_PHY_CLK)] = FromNat(REG_EMAC_PHY_CLK_RST)]

---------------------------------------------------------------------------
(* The environment: what the SD bus answers *)

NoReply == [rlen |-> 0, resp |-> <<>>]

Resp4 == <<129, 0, 255, 1>>

Resp8 == <<1, 2, 3, 4, 5, 6, 7, 8>>

Resp16 == <<0, 1, 2, 3, 4, 5, 6, 7, 8, 9, 10, 11, 12, 13, 14, 15>>

Replies ==
    {[rlen |-> -1, resp |-> <<>>],
     [rlen |-> 0, resp |-> <<>>],
     [rlen |-> 4, resp |-> Resp4],
     [rlen |-> 8, resp |-> Resp8],
     [rlen |-> 16, resp |-> Resp16]}

NoStream == <<0>>

Streams == {<<239, 190, 173, 222, 1>>}

(* What sdbus_data_ready and sdbus_read_data can answer when consulted *)
DataAnswers(asked) ==
    IF asked
    THEN {[ready |-> FALSE, d |-> NoStream]}
            \cup {[ready |-> TRUE, d |-> c] : c \in Streams}
    ELSE {[ready |-> FALSE, d |-> NoStream]}

(* The answers a call can consult, given the registers at entry and the    *)
(* replies the card can give to a command                                  *)
WriteEnv(st, offset, value, replies) ==
    LET load == offset = REG_SD_CMDR /\ And(value, SD_CMDR_LOAD) # Zero
        cmd == IF offset = REG_SD_CMDR THEN value ELSE st.command
        bus == And(cmd, SD_CMDR_CLKCHANGE) = Zero
        stop == (load \/ offset = REG_SD_FIFO)
                    /\ And(cmd, SD_CMDR_AUTOSTOP) # Zero /\ bus
        rd == load /\ And(cmd, SD_CMDR_WRITE) = Zero /\ DmaPossible(st)
    IN  {[r1 |-> a, ready |-> b.ready, d |-> b.d, r2 |-> z] :
            a \in (IF load /\ bus THEN replies ELSE {NoReply}),
            b \in DataAnswers(rd),
            z \in (IF stop THEN replies ELSE {NoReply})}

ReadEnv(st, offset, replies) ==
    LET fifo == offset = REG_SD_FIFO
        stop == fifo /\ And(st.command, SD_CMDR_AUTOSTOP) # Zero
                     /\ And(st.command, SD_CMDR_CLKCHANGE) = Zero
    IN  {[r1 |-> NoReply, ready |-> b.ready, d |-> b.d, r2 |-> z] :
            b \in DataAnswers(fifo),
            z \in (IF stop THEN replies ELSE {NoReply})}

---------------------------------------------------------------------------
(* Entry points as actions *)

Pack == [s |-> s, irq |-> irq, mem |-> mem, log |-> <<>>, pos |-> 0]

Commit(m) == s' = m.s /\ irq' = m.irq /\ mem' = m.mem /\ log' = m.log

Call(op, offset, value) == [op |-> op, offset |-> offset, value |-> value]

NoSnapshot == <<>>

(* The guest runs only while no snapshot is waiting to be restored *)
GuestRuns == vmsd = NoSnapshot

(* Device reset: the registers only, the IRQ line is not driven *)
Reset ==
    /\ s' = aw_h3_sdhost_reset(s)
    /\ call' = Call("reset", 0, Zero)
    /\ log' = <<>>
    /\ res' = Zero
    /\ UNCHANGED <<irq, mem, vmsd, nwrites, boards>>

SetInserted ==
    \E inserted \in BOOLEAN :
        /\ GuestRuns
        /\ \E m \in {aw_h3_sdhost_set_inserted(Pack, inserted)} : Commit(m)
        /\ call' = Call("set_inserted", 0, IF inserted THEN {0} ELSE Zero)
        /\ res' = Zero
        /\ UNCHANGED <<vmsd, nwrites, boards>>

(* One register write in <<offset, value>> with the bus answering e *)
Write(in, e) ==
    /\ GuestRuns
    /\ \E m \in {aw_h3_sdhost_write(Pack, in[1], in[2], e)} : Commit(m)
    /\ call' = Call("write", in[1], in[2])
    /\ res' = Zero
    /\ UNCHANGED <<vmsd, boards>>

MmioWrite(WS, replies) ==
    \E in \in WS :
      \E e \in WriteEnv(s, in[1], in[2], replies) :
        Write(in, e) /\ UNCHANGED nwrites

(* Register writes counted against the bound max *)
MmioWriteBounded(WS, replies, max) ==
    \E in \in WS :
      \E e \in WriteEnv(s, in[1], in[2], replies) :
        /\ nwrites < max
        /\ Write(in, e)
        /\ nwrites' = nwrites + 1

MmioRead(RS, replies) ==
    \E offset \in RS :
      \E e \in ReadEnv(s, offset, replies) :
        \E r \in {aw_h3_sdhost_read(Pack, offset, e)} :
            /\ GuestRuns
            /\ Commit(r.m)
            /\ call' = Call("read", offset, Zero)
            /\ res' = r.res
            /\ UNCHANGED <<vmsd, nwrites, boards>>

(* Serialize the device (vmstate_aw_h3_sdhost) *)
VmSave ==
    /\ GuestRuns
    /\ vmsd' = vmstate_save(s)
    /\ call' = Call("save", 0, Zero)
    /\ log' = <<>>
    /\ res' = Zero
    /\ UNCHANGED <<s, irq, mem, nwrites, boards>>

(* Restore the device from the stream; there is no post_load hook *)
VmLoad ==
    /\ vmsd # NoSnapshot
    /\ vmsd.version = VmVersion
    /\ s' = vmstate_load(s, vmsd)
    /\ vmsd' = NoSnapshot
    /\ call' = Call("load", 0, Zero)
    /\ log' = <<>>
    /\ res' = Zero
    /\ UNCHANGED <<irq, mem, nwrites, boards>>

(* The device with registers st and guest RAM m0, before its first call *)
InitFrom(st, m0) ==
    /\ s = st
    /\ irq = Zero
    /\ mem = m0
    /\ call = Call("reset", 0, Zero)
    /\ log = <<>>
    /\ res = Zero
    /\ vmsd = NoSnapshot
    /\ nwrites = 0
    /\ clk = allwinner_h3_clk_reset(ZeroRegs(AW_H3_CLK_REGS_NUM))
    /\ syscon = allwinner_h3_syscon_reset(ZeroRegs(AW_H3_SYSCON_REGS_NUM))

(* The state after aw_h3_sdhost_init and the first reset, guest RAM m0 *)
InitWith(m0) == InitFrom(aw_h3_sdhost_reset(ZeroState), m0)

Init == InitWith(<<>>)

(* The entry points of the two register files *)
BoardCall(op, offset, value) ==
    /\ call' = Call(op, offset, value)
    /\ log' = <<>>
    /\ UNCHANGED <<s, irq, mem, vmsd, nwrites>>

ClkReset ==
    /\ clk' = allwinner_h3_clk_reset(clk)
    /\ res' = Zero
    /\ BoardCall("clk_reset", 0, Zero)
    /\ UNCHANGED syscon

ClkWrite(WS) ==
    \E in \in WS :
        /\ clk' = allwinner_h3_clk_write(clk, in[1], in[2])
        /\ res' = Zero
        /\ BoardCall("clk_write", in[1], in[2])
        /\ UNCHANGED syscon

ClkRead(RS) ==
    \E offset \in RS :
        /\ res' = allwinner_h3_clk_read(clk, offset)
        /\ BoardCall("clk_read", offset, Zero)
        /\ UNCHANGED boards

SysconReset ==
    /\ syscon' = allwinner_h3_syscon_reset(syscon)
    /\ res' = Zero
    /\ BoardCall("syscon_reset", 0, Zero)
    /\ UNCHANGED clk

SysconWrite(WS) ==
    \E in \in WS :
        /\ syscon' = allwinner_h3_syscon_write(syscon, in[1], in[2])
        /\ res' = Zero
        /\ BoardCall("syscon_write", in[1], in[2])
        /\ UNCHANGED clk

SysconRead(RS) ==
    \E offset \in RS :
        /\ res' = allwinner_h3_syscon_read(syscon, offset)
        /\ BoardCall("syscon_read", offset, Zero)
        /\ UNCHANGED boards

W(offset, values) == {<<offset, v>> : v \in values}

IsWrite(c, offsets) == c.op = "write" /\ c.offset \in offsets

IsRead(c, offsets) == c.op = "read" /\ c.offset \in offsets

Events(l, kinds) == {i \in DOMAIN l : l[i].ev \in kinds}

Has(word, flag) == And(word, flag) # Zero

---------------------------------------------------------------------------
(* Spec: interrupt and control registers, any number of accesses *)

SpecWrites ==
    W(REG_SD_GCTL, {{0, 1, 2, 4}, {0, 1, 2}})
        \cup W(REG_SD_IMKR, {AllBits, SD_RISR_CMD_COMPLETE})
        \cup W(REG_SD_RISR, {AllBits, SD_RISR_CMD_COMPLETE})
        \cup W(REG_SD_MISR, {Or(SD_RISR_DATA_COMPLETE, SD_RISR_AUTOCMD_DONE)})
        \cup W(REG_SD_STAR, {AllBits})
        \cup W(REG_SD_IDIE, {AllBits})
        \cup W(REG_SD_CMDR, {Or(SD_CMDR_LOAD, Or(SD_CMDR_RESPONSE, FromNat(8)))})
        \cup W(REG_SD_FIFO, {FromNat(4660)})

(* The card accepts a command or the submit fails *)
SpecReplies == {[rlen |-> 4, resp |-> Resp4], [rlen |-> -1, resp |-> <<>>]}

SpecReads == {REG_SD_GCTL, REG_SD_CMDR, REG_SD_MISR, REG_SD_FIFO, 1024}

Next ==
    \/ Reset
    \/ SetInserted
    \/ MmioWrite(SpecWrites, SpecReplies)
    \/ MmioRead(SpecReads, SpecReplies)

Spec == Init /\ [][Next]_vars

---------------------------------------------------------------------------
(* SpecCmd: command dispatch, every kind of reply from the SD bus *)

CmdWrites ==
    W(REG_SD_CMDR,
        {Or(SD_CMDR_LOAD, Or(SD_CMDR_RESPONSE, FromNat(8))),
         Or(SD_CMDR_LOAD, Or(SD_CMDR_RESPONSE, Or(SD_CMDR_RESPONSE_LONG, FromNat(2)))),
         Or(SD_CMDR_LOAD, FromNat(7)),
         Or(SD_CMDR_LOAD, Or(SD_CMDR_CLKCHANGE, SD_CMDR_RESPONSE)),
         Or(SD_CMDR_LOAD, Or(SD_CMDR_CLKCHANGE, SD_CMDR_AUTOSTOP)),
         Or(SD_CMDR_LOAD, Or(SD_CMDR_AUTOSTOP, FromNat(18))),
         Or(SD_CMDR_RESPONSE, FromNat(8))})
        \cup W(REG_SD_CAGR, {FromNat(512)})
        \cup W(REG_SD_BYCR, {FromNat(8)})
        \cup W(REG_SD_RISR, {AllBits})

CmdReads == {REG_SD_RESP0, REG_SD_CMDR}

NextCmd ==
    \/ Reset
    \/ MmioWrite(CmdWrites, Replies)
    \/ MmioRead(CmdReads, Replies)

SpecCmd == Init /\ [][NextCmd]_vars

---------------------------------------------------------------------------
(* SpecXfer: data transfers through the FIFO and the DMA engine, with a    *)
(* chain of two descriptors in guest RAM                                   *)

XferDesc0 ==
    [status |-> DESC_STATUS_HOLD, size |-> FromNat(4),
     addr |-> FromNat(RamBase + 64), next |-> FromNat(RamBase + 16)]

XferDesc1 ==
    [status |-> Or(DESC_STATUS_HOLD, DESC_STATUS_LAST), size |-> Zero,
     addr |-> FromNat(RamBase + 72), next |-> Zero]

XferData == <<10, 20, 30, 40, 50, 60, 70, 80>>

XferMem ==
    cpu_physical_memory_write(
        cpu_physical_memory_write(
            cpu_physical_memory_write(<<>>, RamBase, BytesOfDesc(XferDesc0)),
            RamBase + 16, BytesOfDesc(XferDesc1)),
        RamBase + 64, XferData)

InitXfer == InitWith(XferMem)

XferWrites ==
    W(REG_SD_GCTL, {SD_GCTL_DMA_ENB})
        \cup W(REG_SD_BYCR, {FromNat(6)})
        \cup W(REG_SD_DLBA, {FromNat(RamBase)})
        \cup W(REG_SD_CMDR,
                {Or(SD_CMDR_LOAD, Or(SD_CMDR_DATA, FromNat(17))),
                 Or(SD_CMDR_LOAD, Or(SD_CMDR_DATA,
                        Or(SD_CMDR_WRITE, Or(SD_CMDR_AUTOSTOP, FromNat(25)))))})
        \cup W(REG_SD_FIFO, {FromNat(4660)})

(* The longest DMA transfer the guest starts *)
MaxDmaBytes == 8

(* The guest programs BYCR before it starts a DMA transfer: no command is  *)
(* loaded while the DMA engine would move more than MaxDmaBytes            *)
XferWritesNow ==
    {in \in XferWrites :
        ~(/\ in[1] = REG_SD_CMDR
          /\ Has(in[2], SD_CMDR_LOAD)
          /\ DmaPossible(s)
          /\ LtU(FromNat(MaxDmaBytes), s.byte_count))}

XferReads == {REG_SD_FIFO}


NextXfer ==
    \/ Reset
    \/ MmioWrite(XferWritesNow, SpecReplies)
    \/ MmioRead(XferReads, SpecReplies)

SpecXfer == InitXfer /\ [][NextXfer]_vars

---------------------------------------------------------------------------
(* SpecFifo: programmed I/O with the DMA engine left disabled *)

FifoWrites ==
    W(REG_SD_BYCR, {FromNat(6), FromNat(8)})
        \cup W(REG_SD_CMDR,
                {Or(SD_CMDR_LOAD, Or(SD_CMDR_DATA, FromNat(17))),
                 Or(SD_CMDR_LOAD, Or(SD_CMDR_DATA,
                        Or(SD_CMDR_WRITE, Or(SD_CMDR_AUTOSTOP, FromNat(25)))))})
        \cup W(REG_SD_FIFO, {FromNat(4660)})
        \cup W(REG_SD_RISR, {AllBits})
        \cup W(REG_SD_STAR, {SD_STAR_CARD_PRESENT})

FifoReads == {REG_SD_FIFO, REG_SD_BYCR}

NextFifo ==
    \/ Reset
    \/ SetInserted
    \/ MmioWrite(FifoWrites, SpecReplies)
    \/ MmioRead(FifoReads, SpecReplies)

SpecFifo == Init /\ [][NextFifo]_vars

---------------------------------------------------------------------------
(* SpecVm: every writable register written, at most MaxVmWrites writes in  *)
(* a run, and the device saved, reset and restored at any point            *)

MaxVmWrites == 2

WritableOffsets ==
    {REG_SD_GCTL, REG_SD_CKCR, REG_SD_TMOR, REG_SD_BWDR, REG_SD_BKSR,
     REG_SD_BYCR, REG_SD_CMDR, REG_SD_CAGR, REG_SD_RESP0, REG_SD_RESP1,
     REG_SD_RESP2, REG_SD_RESP3, REG_SD_IMKR, REG_SD_MISR, REG_SD_RISR,
     REG_SD_STAR, REG_SD_FWLR, REG_SD_FUNS, REG_SD_DBGC, REG_SD_A12A,
     REG_SD_NTSR, REG_SD_SDBG, REG_SD_HWRST, REG_SD_DMAC, REG_SD_DLBA,
     REG_SD_IDST, REG_SD_IDIE, REG_SD_THLDC, REG_SD_DSBD, REG_SD_FIFO}

(* A value of its own for each register *)
VmValue(offset) == FromNat(4660 + offset)

VmWrites ==
    {<<offset, VmValue(offset)>> : offset \in WritableOffsets}
        \cup W(REG_SD_CMDR, {Or(SD_CMDR_LOAD, VmValue(REG_SD_CMDR))})

NextVm ==
    \/ Reset
    \/ SetInserted
    \/ MmioWriteBounded(VmWrites, SpecReplies, MaxVmWrites)
    \/ VmSave
    \/ VmLoad

SpecVm == Init /\ [][NextVm]_vars

---------------------------------------------------------------------------
(* SpecStop: commands with and without AUTOSTOP and CLKCHANGE, a command   *)
(* argument, and data moved through the FIFO and by the DMA engine.  The   *)
(* descriptor base is left at 0, below the SDRAM: the descriptor reads as  *)
(* zeroes (size 65536, no LAST) and the data goes to or comes from nowhere *)

StopWrites ==
    W(REG_SD_GCTL, {SD_GCTL_DMA_ENB})
        \cup W(REG_SD_BYCR, {FromNat(8)})
        \cup W(REG_SD_CAGR, {FromNat(512)})
        \cup W(REG_SD_CMDR,
                {Or(SD_CMDR_LOAD, Or(SD_CMDR_DATA,
                        Or(SD_CMDR_WRITE, Or(SD_CMDR_AUTOSTOP, FromNat(25))))),
                 Or(SD_CMDR_LOAD, Or(SD_CMDR_DATA,
                        Or(SD_CMDR_AUTOSTOP, FromNat(18)))),
                 Or(SD_CMDR_LOAD, Or(SD_CMDR_CLKCHANGE, SD_CMDR_AUTOSTOP)),
                 Or(SD_CMDR_LOAD, FromNat(12))})
        \cup W(REG_SD_FIFO, {FromNat(4660)})

(* As XferWritesNow: no command is loaded while the DMA engine would move  *)
(* more than MaxDmaBytes                                                   *)
StopWritesNow ==
    {in \in StopWrites :
        ~(/\ in[1] = REG_SD_CMDR
          /\ Has(in[2], SD_CMDR_LOAD)
          /\ DmaPossible(s)
          /\ LtU(FromNat(MaxDmaBytes), s.byte_count))}

StopReads == {REG_SD_FIFO, REG_SD_CMDR, REG_SD_CAGR}

NextStop ==
    \/ Reset
    \/ MmioWrite(StopWritesNow, SpecReplies)
    \/ MmioRead(StopReads, SpecReplies)

SpecStop == Init /\ [][NextStop]_vars

---------------------------------------------------------------------------
(* SpecPlace: DMA walks in both directions over a chain of two descriptors *)
(* whose buffer addresses are not word aligned and whose sizes add up to   *)
(* less than the largest byte count, entered at either descriptor          *)

PlaceDesc0 ==
    [status |-> DESC_STATUS_HOLD, size |-> FromNat(3),
     addr |-> FromNat(RamBase + 65), next |-> FromNat(RamBase + 16)]

PlaceDesc1 ==
    [status |-> Or(DESC_STATUS_HOLD, DESC_STATUS_LAST), size |-> FromNat(2),
     addr |-> FromNat(RamBase + 74), next |-> Zero]

PlaceData == <<10, 20, 30, 40, 50, 60, 70, 80, 90, 100>>

PlaceMem ==
    cpu_physical_memory_write(
        cpu_physical_memory_write(
            cpu_physical_memory_write(<<>>, RamBase, BytesOfDesc(PlaceDesc0)),
            RamBase + 16, BytesOfDesc(PlaceDesc1)),
        RamBase + 64, PlaceData)

InitPlace == InitWith(PlaceMem)

PlaceWrites ==
    W(REG_SD_GCTL, {SD_GCTL_DMA_ENB})
        \cup W(REG_SD_BYCR, {FromNat(4), FromNat(8)})
        \cup W(REG_SD_DLBA, {FromNat(RamBase), FromNat(RamBase + 16)})
        \cup W(REG_SD_CMDR,
                {Or(SD_CMDR_LOAD, Or(SD_CMDR_DATA, FromNat(17))),
                 Or(SD_CMDR_LOAD, Or(SD_CMDR_DATA, Or(SD_CMDR_WRITE, FromNat(24))))})

(* As XferWritesNow: no command is loaded while the DMA engine would move  *)
(* more than MaxDmaBytes                                                   *)
PlaceWritesNow ==
    {in \in PlaceWrites :
        ~(/\ in[1] = REG_SD_CMDR
          /\ Has(in[2], SD_CMDR_LOAD)
          /\ DmaPossible(s)
          /\ LtU(FromNat(MaxDmaBytes), s.byte_count))}

(* The card accepts every command *)
PlaceReplies == {[rlen |-> 4, resp |-> Resp4]}

NextPlace ==
    \/ Reset
    \/ MmioWrite(PlaceWritesNow, PlaceReplies)

SpecPlace == InitPlace /\ [][NextPlace]_vars

---------------------------------------------------------------------------
(* SpecZero: DMA walks over descriptors whose size field is 0.  The        *)
(* descriptor base is left at 0, below the SDRAM, where every read returns *)
(* zeroes: the descriptor at 0 has size 0, no LAST, its buffer at address  *)
(* 0 and its successor at address 0                                        *)

(* A byte count above the 65536 bytes of a descriptor of size 0 *)
BigCount == 65539

ZeroWrites ==
    W(REG_SD_GCTL, {SD_GCTL_DMA_ENB})
        \cup W(REG_SD_BYCR, {FromNat(3), FromNat(BigCount)})
        \cup W(REG_SD_CMDR,
                {Or(SD_CMDR_LOAD, Or(SD_CMDR_DATA, FromNat(17))),
                 Or(SD_CMDR_LOAD, Or(SD_CMDR_DATA, Or(SD_CMDR_WRITE, FromNat(24))))})

ZeroReads == {REG_SD_BYCR, REG_SD_RISR}

NextZero ==
    \/ Reset
    \/ MmioWrite(ZeroWrites, PlaceReplies)
    \/ MmioRead(ZeroReads, PlaceReplies)

SpecZero == Init /\ [][NextZero]_vars

---------------------------------------------------------------------------
(* SpecPio: programmed I/O through the FIFO register with the DMA engine   *)
(* and the interrupt enabled or not, the card inserted or not, and         *)
(* accesses to the CRC registers and to offsets that are no register       *)

(* 0x80C0FFEE: four different bytes, bit 31 set *)
FifoWord == ldl_le(238, 255, 192, 128)

(* Offsets the handlers have no case for: a gap between registers, a       *)
(* non-aligned offset, and one beyond the FIFO                             *)
BadOffsets == {72, 2, 1024}

CrcOffsets == {REG_SD_RES_CRC, REG_SD_CRC_STA} \cup CrcDataOffsets

PioWrites ==
    W(REG_SD_GCTL, {Or(SD_GCTL_INT_ENB, SD_GCTL_DMA_ENB)})
        \cup W(REG_SD_IMKR, {AllBits})
        \cup W(REG_SD_BYCR, {FromNat(4), FromNat(6)})
        \cup W(REG_SD_CMDR,
                {Or(SD_CMDR_LOAD, Or(SD_CMDR_DATA,
                        Or(SD_CMDR_WRITE, Or(SD_CMDR_AUTOSTOP, FromNat(25)))))})
        \cup W(REG_SD_FIFO, {FifoWord, FromNat(4660)})
        \cup W(REG_SD_RES_CRC, {AllBits})
        \cup W(REG_SD_DATA7_CRC + 8, {AllBits})
        \cup W(REG_SD_CRC_STA, {FromNat(1)})
        \cup {<<offset, AllBits>> : offset \in BadOffsets}

(* As XferWritesNow: no command is loaded while the DMA engine would move  *)
(* more than MaxDmaBytes                                                   *)
PioWritesNow ==
    {in \in PioWrites :
        ~(/\ in[1] = REG_SD_CMDR
          /\ Has(in[2], SD_CMDR_LOAD)
          /\ DmaPossible(s)
          /\ LtU(FromNat(MaxDmaBytes), s.byte_count))}

PioReads ==
    {REG_SD_FIFO, REG_SD_RES_CRC, REG_SD_DATA0_CRC, REG_SD_CRC_STA}
        \cup BadOffsets

NextPio ==
    \/ Reset
    \/ SetInserted
    \/ MmioWrite(PioWritesNow, PlaceReplies)
    \/ MmioRead(PioReads, PlaceReplies)

SpecPio == Init /\ [][NextPio]_vars

---------------------------------------------------------------------------
(* SpecClk: the clock control unit. PLL control registers, other named     *)
(* registers, an unnamed one, the last one, and offsets past the last      *)

ClkLast == AW_H3_CCU_REGS_MAXADDR - 4

ClkOffsets ==
    {REG_PLL_CPUX, REG_PLL_DE, REG_APB1, REG_PLL_CPUX_BIAS, ClkLast,
     AW_H3_CCU_REGS_MAXADDR, 1020}

ClkValues ==
    {Or(REG_PLL_ENABLE, {0, 12}), {0, 12}, REG_PLL_LOCK}

NextClk ==
    \/ ClkReset
    \/ ClkWrite(ClkOffsets \X ClkValues)
    \/ ClkRead(ClkOffsets)

SpecClk == Init /\ [][NextClk]_vars

---------------------------------------------------------------------------
(* SpecSyscon: the system controller. The version register, the EMAC       *)
(* clock register, an unnamed register, and offsets past the last          *)

SysconOffsets == {0, REG_VER, REG_EMAC_PHY_CLK, 52, 4092}

SysconValues == {AllBits, {0}, Zero}

NextSyscon ==
    \/ SysconReset
    \/ SysconWrite(SysconOffsets \X SysconValues)
    \/ SysconRead(SysconOffsets)

SpecSyscon == Init /\ [][NextSyscon]_vars

---------------------------------------------------------------------------
(* SpecCnt: byte counts. BYCR writes, FIFO transfers, DMA walks over the   *)
(* chain of SpecPlace, status clears and card events in any order          *)

CntDone == Or(SD_RISR_DATA_COMPLETE, SD_RISR_AUTOCMD_DONE)

CntWrites ==
    W(REG_SD_GCTL, {SD_GCTL_DMA_ENB})
        \cup W(REG_SD_BYCR, {Zero, FromNat(4), FromNat(8)})
        \cup W(REG_SD_DLBA, {FromNat(RamBase)})
        \cup W(REG_SD_CMDR,
                {Or(SD_CMDR_LOAD, Or(SD_CMDR_DATA, FromNat(17))),
                 Or(SD_CMDR_LOAD, Or(SD_CMDR_DATA, Or(SD_CMDR_WRITE, FromNat(24))))})
        \cup W(REG_SD_FIFO, {FromNat(4660)})
        \cup W(REG_SD_RISR, {CntDone})

CntWritesNow ==
    {in \in CntWrites :
        ~(/\ in[1] = REG_SD_CMDR
          /\ DmaPossible(s)
          /\ LtU(FromNat(MaxDmaBytes), s.byte_count))}

CntReads == {REG_SD_FIFO, REG_SD_BYCR}

NextCnt ==
    \/ Reset
    \/ SetInserted
    \/ MmioWrite(CntWritesNow, PlaceReplies)
    \/ MmioRead(CntReads, PlaceReplies)

SpecCnt == InitPlace /\ [][NextCnt]_vars

---------------------------------------------------------------------------
(* SpecEntry: commands loaded with the DMA engine enabled or not, with a   *)
(* byte count and a block size or without, over the chain of SpecPlace     *)

EntryWrites ==
    W(REG_SD_GCTL, {SD_GCTL_DMA_ENB, Zero})
        \cup W(REG_SD_BYCR, {Zero, FromNat(4)})
        \cup W(REG_SD_BKSR, {Zero, FromNat(512)})
        \cup W(REG_SD_DLBA, {FromNat(RamBase)})
        \cup W(REG_SD_CMDR,
                {Or(SD_CMDR_LOAD, Or(SD_CMDR_DATA, FromNat(17))),
                 Or(SD_CMDR_LOAD, Or(SD_CMDR_DATA, Or(SD_CMDR_WRITE, FromNat(24))))})

NextEntry ==
    \/ Reset
    \/ MmioWrite(EntryWrites, PlaceReplies)

SpecEntry == InitPlace /\ [][NextEntry]_vars

---------------------------------------------------------------------------
(* SpecChain: DMA walks over descriptor lists of three shapes: a list      *)
(* whose second descriptor has LAST with a third behind it, a cycle of two *)
(* descriptors without LAST, and a single descriptor of size 0 that is     *)
(* its own successor                                                       *)

LastDescs ==
    <<[status |-> Or(DESC_STATUS_HOLD, Or(DESC_STATUS_FIRST, DESC_STATUS_CHAIN)),
       size |-> FromNat(2), addr |-> FromNat(RamBase + 64),
       next |-> FromNat(RamBase + 16)],
      [status |-> Or(DESC_STATUS_HOLD, Or(DESC_STATUS_LAST, DESC_STATUS_NOIRQ)),
       size |-> FromNat(1), addr |-> FromNat(RamBase + 72),
       next |-> FromNat(RamBase + 32)],
      [status |-> Or(DESC_STATUS_HOLD, DESC_STATUS_CHAIN),
       size |-> FromNat(4), addr |-> FromNat(RamBase + 80), next |-> Zero]>>

CycleDescs ==
    <<[status |-> Or(DESC_STATUS_HOLD, DESC_STATUS_CHAIN),
       size |-> FromNat(3), addr |-> FromNat(RamBase + 64),
       next |-> FromNat(RamBase + 16)],
      [status |-> DESC_STATUS_HOLD,
       size |-> FromNat(2), addr |-> FromNat(RamBase + 72),
       next |-> FromNat(RamBase)]>>

SelfDescs ==
    <<[status |-> DESC_STATUS_HOLD, size |-> Zero,
       addr |-> FromNat(RamBase + 64), next |-> FromNat(RamBase)]>>

ChainData == <<11, 12, 13, 14, 15, 16, 17, 18, 21, 22, 23, 24>>

RECURSIVE ChainMem(_, _)
(* Guest memory with the descriptors from the i-th on, 16 bytes apart from *)
(* RamBase, and the data behind them                                       *)
ChainMem(descs, i) ==
    IF i > Len(descs)
    THEN cpu_physical_memory_write(<<>>, RamBase + 64, ChainData)
    ELSE cpu_physical_memory_write(ChainMem(descs, i + 1),
                                   RamBase + 16 * (i - 1), BytesOfDesc(descs[i]))

ChainLists == {LastDescs, CycleDescs, SelfDescs}

InitChain == \E descs \in ChainLists : InitWith(ChainMem(descs, 1))

ChainWrites ==
    W(REG_SD_GCTL, {SD_GCTL_DMA_ENB})
        \cup W(REG_SD_BYCR, {FromNat(2), FromNat(8)})
        \cup W(REG_SD_DLBA, {FromNat(RamBase)})
        \cup W(REG_SD_CMDR,
                {Or(SD_CMDR_LOAD, Or(SD_CMDR_DATA, FromNat(17))),
                 Or(SD_CMDR_LOAD, Or(SD_CMDR_DATA, Or(SD_CMDR_WRITE, FromNat(24))))})

ChainWritesNow ==
    {in \in ChainWrites :
        ~(/\ in[1] = REG_SD_CMDR
          /\ DmaPossible(s)
          /\ LtU(FromNat(MaxDmaBytes), s.byte_count))}

ChainReads == {REG_SD_BYCR}

NextChain ==
    \/ Reset
    \/ MmioWrite(ChainWritesNow, PlaceReplies)
    \/ MmioRead(ChainReads, PlaceReplies)

SpecChain == InitChain /\ [][NextChain]_vars

---------------------------------------------------------------------------
(* SpecIdst: writes to IDST. dmac_status is a plain uint32_t of the        *)
(* migration stream (VMSTATE_UINT32), restored as sent: the device starts  *)
(* with a dmac_status of the stream it came from, any bit set              *)

IdstWords == {AllBits, {0, 1, 8}, {0, 9, 10, 31}, {8}}

InitIdst ==
    \E old \in IdstWords :
        InitFrom([aw_h3_sdhost_reset(ZeroState) EXCEPT !.dmac_status = old], <<>>)

IdstWrites ==
    W(REG_SD_IDST, {Zero, AllBits, {0}, {1, 9, 12}, {8, 10}, {0, 1}})
        \cup W(REG_SD_IDIE, {AllBits})

IdstReads == {REG_SD_IDST}

NextIdst ==
    \/ MmioWrite(IdstWrites, PlaceReplies)
    \/ MmioRead(IdstReads, PlaceReplies)

SpecIdst == InitIdst /\ [][NextIdst]_vars

---------------------------------------------------------------------------
(* SpecPlain: the registers that only store, each written with a value of  *)
(* its own and read back, at most MaxVmWrites writes in a run               *)

PlainOffsets ==
    {REG_SD_CKCR, REG_SD_TMOR, REG_SD_BWDR, REG_SD_BKSR, REG_SD_CAGR,
     REG_SD_RESP0, REG_SD_RESP1, REG_SD_RESP2, REG_SD_RESP3, REG_SD_FWLR,
     REG_SD_FUNS, REG_SD_DBGC, REG_SD_A12A, REG_SD_NTSR, REG_SD_SDBG,
     REG_SD_HWRST, REG_SD_DLBA, REG_SD_THLDC, REG_SD_DSBD}

PlainWrites == {<<offset, VmValue(offset)>> : offset \in PlainOffsets}

NextPlain ==
    \/ Reset
    \/ MmioWriteBounded(PlainWrites, PlaceReplies, MaxVmWrites)
    \/ MmioRead(PlainOffsets, PlaceReplies)

SpecPlain == Init /\ [][NextPlain]_vars

---------------------------------------------------------------------------
(* SpecSticky: every operation that sets or clears a bit of irq_status,    *)
(* status or dmac_status: commands answered or not, DMA walks in both      *)
(* directions, FIFO accesses, card insertion and removal, write-one-to-    *)
(* clear writes naming some bits, all bits, or bits that are not set, and  *)
(* reset.  The descriptor base is left at 0, as in SpecStop.               *)

StickyWrites ==
    W(REG_SD_GCTL, {SD_GCTL_DMA_ENB})
        \cup W(REG_SD_BYCR, {FromNat(4)})
        \cup W(REG_SD_CMDR,
                {Or(SD_CMDR_LOAD, Or(SD_CMDR_DATA, FromNat(17))),
                 Or(SD_CMDR_LOAD, Or(SD_CMDR_DATA,
                        Or(SD_CMDR_WRITE, Or(SD_CMDR_AUTOSTOP, FromNat(25)))))})
        \cup W(REG_SD_FIFO, {FromNat(4660)})
        \cup W(REG_SD_RISR, {Or(SD_RISR_CMD_COMPLETE, SD_RISR_CARD_INSERT),
                             SD_RISR_DATA_COMPLETE})
        \cup W(REG_SD_MISR, {AllBits})
        \cup W(REG_SD_STAR, {AllBits})
        \cup W(REG_SD_IDST, {SD_IDST_TRANSMIT_IRQ, AllBits})

StickyReads == {REG_SD_FIFO}

NextSticky ==
    \/ Reset
    \/ SetInserted
    \/ MmioWrite(StickyWrites, SpecReplies)
    \/ MmioRead(StickyReads, SpecReplies)

SpecSticky == Init /\ [][NextSticky]_vars

---------------------------------------------------------------------------
(* SpecConsume: DMA walks that use up the byte count and walks that stop   *)
(* at LAST with bytes left, over the chain of SpecPlace and over the       *)
(* descriptor of zeroes at address 0, followed by further commands, byte   *)
(* count writes of 0 and above 0, byte count reads and resets.  After a    *)
(* reset the byte count is 0x200, which a walk moves in one pass.          *)

ConsumeWrites ==
    W(REG_SD_GCTL, {SD_GCTL_DMA_ENB})
        \cup W(REG_SD_BYCR, {Zero, FromNat(4), FromNat(8)})
        \cup W(REG_SD_DLBA, {FromNat(RamBase)})
        \cup W(REG_SD_CMDR,
                {Or(SD_CMDR_LOAD, Or(SD_CMDR_DATA, FromNat(17))),
                 Or(SD_CMDR_LOAD, Or(SD_CMDR_DATA, Or(SD_CMDR_WRITE, FromNat(24))))})

ConsumeReads == {REG_SD_BYCR}

NextConsume ==
    \/ Reset
    \/ MmioWrite(ConsumeWrites, PlaceReplies)
    \/ MmioRead(ConsumeReads, PlaceReplies)

SpecConsume == InitPlace /\ [][NextConsume]_vars

---------------------------------------------------------------------------
(* Properties *)

(* C1: at every observable instant (after reset, after every MMIO read or  *)
(* write, after every set_inserted) the level of the IRQ line equals       *)
(* (global_ctl & INT_ENB) ? (irq_status & irq_mask) : 0.                   *)
C1_IrqLineFollowsRegisters == irq = IrqLevel(s)

SelfClearingBits == Or(SD_GCTL_DMA_RST, Or(SD_GCTL_FIFO_RST, SD_GCTL_SOFT_RST))

(* C2: in every state reachable from reset by MMIO writes, MMIO reads and  *)
(* set_inserted calls the self-clearing bits are 0 in the registers and in *)
(* what a read of GCTL or CMDR returns.                                    *)
C2_SelfClearingBitsReadZero ==
    /\ And(s.global_ctl, SelfClearingBits) = Zero
    /\ And(s.command, SD_CMDR_LOAD) = Zero
    /\ IsRead(call, {REG_SD_GCTL}) => And(res, SelfClearingBits) = Zero
    /\ IsRead(call, {REG_SD_CMDR}) => And(res, SD_CMDR_LOAD) = Zero

(* A read of CMDR returns the command written with LOAD, less LOAD, after  *)
(* GCTL was written with the three reset bits set                          *)
C2_Witness ==
    /\ IsRead(call, {REG_SD_CMDR})
    /\ res = Or(SD_CMDR_RESPONSE, FromNat(8))
    /\ s.global_ctl = SD_GCTL_INT_ENB

(* C3: a write of v to RISR or MISR leaves irq_status' = irq_status & ~v   *)
(* (whatever irq_mask is), a write of v to STAR leaves status' = status &  *)
(* ~v, and no other register field changes.                                *)
C3_WriteOneToClear ==
    [][/\ IsWrite(call', {REG_SD_RISR, REG_SD_MISR}) =>
            s' = [s EXCEPT !.irq_status = @ \ call'.value]
       /\ IsWrite(call', {REG_SD_STAR}) =>
            s' = [s EXCEPT !.status = @ \ call'.value]]_vars

(* A MISR write has cleared raw bits that irq_mask masks off, and left     *)
(* the other bits of irq_status                                            *)
C3_Witness ==
    /\ IsWrite(call, {REG_SD_MISR})
    /\ s.irq_mask = SD_RISR_CMD_COMPLETE
    /\ s.irq_status = Or(SD_RISR_CARD_INSERT, SD_RISR_CMD_COMPLETE)

(* The data bytes the last call moved over the SD bus *)
Moved ==
    LET f[i \in 0..Len(log)] ==
            IF i = 0 THEN 0
            ELSE f[i - 1] + (IF log[i].ev \in {"read_data", "write_data"}
                             THEN Len(log[i].data) ELSE 0)
    IN  f[Len(log)]

(* The last call was a transfer step that completed: a FIFO write, a FIFO  *)
(* read that found data ready, or a CMDR write whose DMA walk ran          *)
TransferStep ==
    \/ IsWrite(call, {REG_SD_FIFO})
    \/ IsRead(call, {REG_SD_FIFO}) /\ Events(log, {"read_data"}) # {}
    \/ IsWrite(call, {REG_SD_CMDR}) /\ Events(log, {"mem_read"}) # {}

(* C4: immediately after a completed transfer step, transfer_cnt = 0       *)
(* implies DATA_COMPLETE and AUTOCMD_DONE are set, and transfer_cnt is the *)
(* old count less the bytes moved, or 0 where that would be negative.      *)
C4_TransferCount ==
    [][TransferStep' =>
            /\ s'.transfer_cnt = Zero =>
                    Or(SD_RISR_DATA_COMPLETE, SD_RISR_AUTOCMD_DONE)
                        \subseteq s'.irq_status
            /\ 31 \notin s'.transfer_cnt
            /\ ToNat(s'.transfer_cnt) =
                    IF ToNat(s.transfer_cnt) > Moved'
                    THEN ToNat(s.transfer_cnt) - Moved'
                    ELSE 0]_vars

(* A DMA walk through the two descriptors moved 6 bytes to the card when 2 *)
(* were left to count and DATA_COMPLETE was clear: the count stopped at 0  *)
(* and the completion bits are set                                         *)
C4_Witness ==
    /\ IsWrite(call, {REG_SD_CMDR})
    /\ Events(log, {"mem_read"}) # {}
    /\ Moved = 6
    /\ \E i \in Events(log, {"submit"}) :
            /\ log[i].before.transfer_cnt = FromNat(2)
            /\ ~Has(log[i].before.irq_status, SD_RISR_DATA_COMPLETE)
    /\ s.desc_base = FromNat(RamBase)
    /\ s.transfer_cnt = Zero
    /\ Or(SD_RISR_DATA_COMPLETE, SD_RISR_AUTOCMD_DONE) \subseteq s.irq_status

(* C5: a write of N to BYCR sets byte_count and transfer_cnt to N, and     *)
(* transfer_cnt keeps its value across every operation that is not a FIFO  *)
(* data access, a DMA walk, a BYCR write or a reset.                       *)
C5_ByteCountWrite ==
    [][/\ IsWrite(call', {REG_SD_BYCR}) =>
            s'.byte_count = call'.value /\ s'.transfer_cnt = call'.value
       /\ ~(TransferStep' \/ IsWrite(call', {REG_SD_BYCR}) \/ call'.op = "reset")
            => s'.transfer_cnt = s.transfer_cnt]_vars

(* A command with AUTOSTOP was loaded with the DMA engine disabled while 2 *)
(* of the 6 bytes written to BYCR were left to count                       *)
C5_Witness ==
    /\ IsWrite(call, {REG_SD_CMDR})
    /\ Has(call.value, SD_CMDR_AUTOSTOP)
    /\ Events(log, {"submit"}) # {}
    /\ Events(log, {"mem_read"}) = {}
    /\ s.byte_count = FromNat(6)
    /\ s.transfer_cnt = FromNat(2)

(* C6: for every reachable device state, serialize, then reset, then       *)
(* restore yields the same value in every field of the device state.       *)
C6_SaveRestoreRoundTrip ==
    vmstate_load(aw_h3_sdhost_reset(s), vmstate_save(s)) = s

(* The device was restored after a reset to a state in which transfer_cnt  *)
(* differs from byte_count and both from their reset values                *)
C6_Witness ==
    /\ call.op = "load"
    /\ s.byte_count = VmValue(REG_SD_BYCR)
    /\ s.transfer_cnt = SubU(VmValue(REG_SD_BYCR), FromNat(4))
    /\ s.irq_status = Zero

(* The submit events of the last call: each is one dispatch that reached   *)
(* the SD bus                                                              *)
Submits == {log[i] : i \in Events(log, {"submit"})}

(* Bytes b0..b3 are the big-endian bytes of the word w *)
IsBigEndian(w, b0, b1, b2, b3) ==
    /\ ByteOf(w, 3) = b0
    /\ ByteOf(w, 2) = b1
    /\ ByteOf(w, 1) = b2
    /\ ByteOf(w, 0) = b3

(* C7: a dispatch with RESPONSE set and a reply of matching length stores  *)
(* a 4-byte reply as response[0] = big-endian word, response[1..3] = 0, a  *)
(* 16-byte reply as the big-endian words of bytes 12..15, 8..11, 4..7,     *)
(* 0..3, and sets CMD_COMPLETE; with RESPONSE clear the response registers *)
(* are unchanged.                                                          *)
C7_ResponseCapture ==
    \A ev \in Submits :
        LET c == ev.before.command
            b == ev.resp
            r == ev.after.response
        IN  /\ (Has(c, SD_CMDR_RESPONSE) /\ ~Has(c, SD_CMDR_RESPONSE_LONG)
                    /\ ev.rlen = 4) =>
                 /\ IsBigEndian(r[1], b[1], b[2], b[3], b[4])
                 /\ r[2] = Zero /\ r[3] = Zero /\ r[4] = Zero
                 /\ Has(ev.after.irq_status, SD_RISR_CMD_COMPLETE)
            /\ (Has(c, SD_CMDR_RESPONSE) /\ Has(c, SD_CMDR_RESPONSE_LONG)
                    /\ ev.rlen = 16) =>
                 /\ IsBigEndian(r[1], b[13], b[14], b[15], b[16])
                 /\ IsBigEndian(r[2], b[9], b[10], b[11], b[12])
                 /\ IsBigEndian(r[3], b[5], b[6], b[7], b[8])
                 /\ IsBigEndian(r[4], b[1], b[2], b[3], b[4])
                 /\ Has(ev.after.irq_status, SD_RISR_CMD_COMPLETE)
            /\ ~Has(c, SD_CMDR_RESPONSE) => r = ev.before.response

(* A long-response command got its 16 bytes while the response registers   *)
(* held an earlier short response                                          *)
C7_Witness ==
    \E ev \in Submits :
        /\ Has(ev.before.command, SD_CMDR_RESPONSE_LONG)
        /\ ev.rlen = 16
        /\ ev.before.response[1] # Zero
        /\ ev.before.response[2] = Zero
        /\ ev.after.response[2] # Zero
        /\ ~Has(ev.before.irq_status, SD_RISR_CMD_COMPLETE)

(* The reply length does not match the command's response flags *)
LengthMismatch(ev) ==
    /\ Has(ev.before.command, SD_CMDR_RESPONSE)
    /\ ev.rlen >= 0
    /\ IF Has(ev.before.command, SD_CMDR_RESPONSE_LONG)
       THEN ev.rlen # 16
       ELSE ev.rlen # 4

(* What a dispatch that ends in error does: NO_RESPONSE set, CMD_COMPLETE  *)
(* as it was, response registers as they were                              *)
EndsInError(ev) ==
    /\ Has(ev.after.irq_status, SD_RISR_NO_RESPONSE)
    /\ Has(ev.after.irq_status, SD_RISR_CMD_COMPLETE)
            <=> Has(ev.before.irq_status, SD_RISR_CMD_COMPLETE)
    /\ ev.after.response = ev.before.response

(* C8: a dispatch with RESPONSE set whose reply length is not 16 with      *)
(* RESPONSE_LONG set, or not 4 with RESPONSE_LONG clear, sets NO_RESPONSE, *)
(* does not set CMD_COMPLETE and leaves the response registers unchanged.  *)
C8_LengthMismatchIsError ==
    \A ev \in Submits : LengthMismatch(ev) => EndsInError(ev)

(* C9: a dispatch whose submit fails sets NO_RESPONSE, does not set        *)
(* CMD_COMPLETE, leaves the response registers unchanged, and every MMIO   *)
(* access is still served afterwards.                                      *)
C9_BusFailure ==
    /\ \A ev \in Submits : ev.rlen < 0 => EndsInError(ev)
    /\ (\E ev \in Submits : ev.rlen < 0) =>
            /\ \A in \in CmdWrites : ENABLED MmioWrite({in}, Replies)
            /\ \A offset \in CmdReads : ENABLED MmioRead({offset}, Replies)

(* A submit failed while the response registers held a response and        *)
(* CMD_COMPLETE was clear                                                  *)
C9_Witness ==
    \E ev \in Submits :
        /\ ev.rlen < 0
        /\ ev.before.response[1] # Zero
        /\ ~Has(ev.before.irq_status, SD_RISR_CMD_COMPLETE)
        /\ ~Has(ev.before.irq_status, SD_RISR_NO_RESPONSE)

ClockChangeLoad == Or(SD_CMDR_LOAD, SD_CMDR_CLKCHANGE)

(* C10: during a CMDR write with LOAD and CLKCHANGE set submit is never    *)
(* called, CMD_COMPLETE is set, NO_RESPONSE is not newly set, the response *)
(* registers are unchanged and LOAD is clear in the command register.      *)
C10_ClockChange ==
    [][(IsWrite(call', {REG_SD_CMDR}) /\ ClockChangeLoad \subseteq call'.value) =>
            /\ Events(log', {"submit"}) = {}
            /\ Has(s'.irq_status, SD_RISR_CMD_COMPLETE)
            /\ Has(s'.irq_status, SD_RISR_NO_RESPONSE)
                    => Has(s.irq_status, SD_RISR_NO_RESPONSE)
            /\ s'.response = s.response
            /\ ~Has(s'.command, SD_CMDR_LOAD)]_vars

(* A clock change with AUTOSTOP was loaded while transfer_cnt was 0 and    *)
(* the response registers held a response                                  *)
C10_Witness ==
    /\ IsWrite(call, {REG_SD_CMDR})
    /\ Or(ClockChangeLoad, SD_CMDR_AUTOSTOP) \subseteq call.value
    /\ s.transfer_cnt = Zero
    /\ s.response[1] # Zero
    /\ s.irq_status = SD_RISR_CMD_COMPLETE

(* The call c ran aw_h3_sdhost_auto_stop: a CMDR write with LOAD, a FIFO   *)
(* write, or a FIFO read that found data ready (l is the call's log)       *)
StopPoint(c, l) ==
    \/ IsWrite(c, {REG_SD_CMDR}) /\ Has(c.value, SD_CMDR_LOAD)
    \/ IsWrite(c, {REG_SD_FIFO})
    \/ IsRead(c, {REG_SD_FIFO}) /\ Events(l, {"read_data"}) # {}

(* The submits of aw_h3_sdhost_auto_stop in the log of call c: every submit *)
(* of a FIFO access, and every submit after the first of a CMDR write (the *)
(* first is the guest's command; a clock change submits neither)           *)
StopSubmits(c, l) ==
    LET subs == Events(l, {"submit"})
    IN  IF IsWrite(c, {REG_SD_CMDR})
        THEN {i \in subs : \E j \in subs : j < i}
        ELSE subs

(* C11: at the end of a CMDR write with LOAD, of a FIFO write and of a     *)
(* FIFO read with data ready, one command with id 12 and argument 0 is     *)
(* submitted to the SD bus if command has AUTOSTOP set, CLKCHANGE clear    *)
(* and transfer_cnt = 0 at that point, and none is submitted otherwise.    *)
C11_AutoStop ==
    [][StopPoint(call', log') =>
            LET stops == StopSubmits(call', log')
                due == /\ Has(s'.command, SD_CMDR_AUTOSTOP)
                       /\ ~Has(s'.command, SD_CMDR_CLKCHANGE)
                       /\ s'.transfer_cnt = Zero
            IN  /\ Cardinality(stops) = (IF due THEN 1 ELSE 0)
                /\ \A i \in stops :
                        /\ log'[i].cmd = 12
                        /\ log'[i].arg = Zero
                        /\ log'[i].before.transfer_cnt = Zero
                        /\ Has(log'[i].before.command, SD_CMDR_AUTOSTOP)
                        /\ \A j \in Events(log', {"read_data", "write_data"}) : j < i]_vars

(* A write command with AUTOSTOP and a non-zero argument was loaded with 8 *)
(* bytes to count; the DMA walk moved them and the stop command followed   *)
C11_Witness ==
    /\ IsWrite(call, {REG_SD_CMDR})
    /\ Has(call.value, SD_CMDR_AUTOSTOP)
    /\ Moved = 8
    /\ s.command_arg = FromNat(512)
    /\ \E i \in Events(log, {"submit"}) :
            /\ log[i].cmd = 25
            /\ log[i].before.transfer_cnt = FromNat(8)
    /\ \E i \in StopSubmits(call, log) : log[i].cmd = 12 /\ log[i].arg = Zero

(* C12: after an operation that injects the stop command, command and      *)
(* command_arg have their values from just before the injection: a CMDR    *)
(* write of v leaves command = v less LOAD, which is what CMDR then reads, *)
(* a CAGR read returns command_arg, and command_arg changes only on a CAGR *)
(* write, to the value written, and on reset.                              *)
C12_AutoStopRestores ==
    [][/\ IsWrite(call', {REG_SD_CMDR}) =>
            /\ s'.command = call'.value \ SD_CMDR_LOAD
            /\ s'.command_arg = s.command_arg
       /\ (StopPoint(call', log') /\ ~IsWrite(call', {REG_SD_CMDR})) =>
            /\ s'.command = s.command
            /\ s'.command_arg = s.command_arg
       /\ IsRead(call', {REG_SD_CMDR}) => res' = s.command /\ s' = s
       /\ IsRead(call', {REG_SD_CAGR}) => res' = s.command_arg /\ s' = s
       /\ IsWrite(call', {REG_SD_CAGR}) => s'.command_arg = call'.value
       /\ s'.command_arg # s.command_arg =>
            IsWrite(call', {REG_SD_CAGR}) \/ call'.op = "reset"
       /\ s'.command # s.command =>
            IsWrite(call', {REG_SD_CMDR}) \/ call'.op = "reset"]_vars

(* A FIFO read took the last bytes of a transfer and injected the stop     *)
(* command while the guest's command 18 and its argument were in place     *)
C12_Witness ==
    /\ IsRead(call, {REG_SD_FIFO})
    /\ StopSubmits(call, log) # {}
    /\ s.command = Or(SD_CMDR_DATA, Or(SD_CMDR_AUTOSTOP, FromNat(18)))
    /\ s.command_arg = FromNat(512)

Min(a, b) == IF a < b THEN a ELSE b

(* The descriptor stored at address a of memory, as the guest wrote it *)
DescAt(memory, a) == DescOfBytes(cpu_physical_memory_read(memory, a, 16))

(* The size field of a descriptor, 0 read as 65536 *)
DescSize(desc) == IF desc.size = Zero THEN 65536 ELSE ToNat(desc.size)

RECURSIVE ChainSegs(_, _, _)
(* The segments of a walk that enters the chain at the descriptor at a     *)
(* with n bytes to go: descriptor i moves seg_i = min(size_i, bytes to go) *)
(* bytes at addr_i & 0xFFFFFFFC                                            *)
ChainSegs(memory, a, n) ==
    IF n = 0 THEN <<>>
    ELSE LET desc == DescAt(memory, AddrPlus(a, 0))
             seg == Min(DescSize(desc), n)
         IN  <<[addr |-> AddrPlus(desc.addr \ {0, 1}, 0), len |-> seg]>>
                \o (IF Has(desc.status, DESC_STATUS_LAST) THEN <<>>
                    ELSE ChainSegs(memory, desc.next, n - seg))

RECURSIVE ChainSizes(_, _, _)
(* The sum of the sizes of the descriptors from the one at a up to and     *)
(* including the first with LAST, not followed beyond cap bytes            *)
ChainSizes(memory, a, cap) ==
    LET desc == DescAt(memory, AddrPlus(a, 0))
        size == DescSize(desc)
    IN  IF Has(desc.status, DESC_STATUS_LAST) \/ size >= cap THEN size
        ELSE size + ChainSizes(memory, desc.next, cap - size)

(* The data bytes of the events of one kind in log l, in order *)
BusBytes(l, kind) ==
    LET f[i \in 0..Len(l)] ==
            IF i = 0 THEN <<>>
            ELSE f[i - 1] \o (IF l[i].ev = kind THEN l[i].data ELSE <<>>)
    IN  f[Len(l)]

(* The number of bytes the segments before segment i move *)
SegStart(segs, i) ==
    LET f[j \in 0..Len(segs)] == IF j = 0 THEN 0 ELSE f[j - 1] + segs[j].len
    IN  f[i - 1]

(* The last call was a CMDR write whose DMA walk ran *)
DmaWalked(c, l) == IsWrite(c, {REG_SD_CMDR}) /\ Events(l, {"mem_read"}) # {}

(* C13: a DMA walk moves, for descriptor i in chain order, seg_i =          *)
(* min(size_i, byte_count left) bytes between the bus and guest memory at  *)
(* (addr_i & 0xFFFFFFFC) + k in bus byte order: a read stores the k-th     *)
(* byte read, a write sends the k-th byte of the buffer; the total is      *)
(* min(byte_count at entry, sum of the sizes up to the first LAST).        *)
C13_DmaPlacement ==
    [][DmaWalked(call', log') =>
            LET n == ToNat(s.byte_count)
                segs == ChainSegs(mem, s.desc_base, n)
                got == BusBytes(log', "read_data")
                sent == BusBytes(log', "write_data")
            IN  /\ Moved' = Min(n, ChainSizes(mem, s.desc_base, n))
                /\ Moved' <= n
                /\ Moved' = SegStart(segs, Len(segs) + 1)
                /\ IF Has(call'.value, SD_CMDR_WRITE)
                   THEN /\ got = <<>>
                        /\ Len(sent) = Moved'
                        /\ \A i \in DOMAIN segs : \A k \in 0..(segs[i].len - 1) :
                              sent[SegStart(segs, i) + k + 1] =
                                  MemByte(mem, segs[i].addr + k)
                   ELSE /\ sent = <<>>
                        /\ Len(got) = Moved'
                        /\ \A i \in DOMAIN segs : \A k \in 0..(segs[i].len - 1) :
                              InRam(segs[i].addr + k) =>
                                  MemByte(mem', segs[i].addr + k) =
                                      got[SegStart(segs, i) + k + 1]]_vars

(* A read of 4 bytes walked both descriptors: 3 bytes went to the first    *)
(* buffer, whose address 0x40000041 was rounded down to 0x40000040, and    *)
(* the fourth to the second buffer at 0x40000048                           *)
C13_Witness ==
    /\ DmaWalked(call, log)
    /\ ~Has(call.value, SD_CMDR_WRITE)
    /\ Moved = 4
    /\ s.desc_base = FromNat(RamBase)
    /\ MemByte(mem, RamBase + 64) = 239
    /\ MemByte(mem, RamBase + 66) = 173
    /\ MemByte(mem, RamBase + 67) = 40
    /\ MemByte(mem, RamBase + 72) = 222
    /\ MemByte(mem, RamBase + 73) = 100

(* sizeof(TransferDescriptor) *)
DescBytes == 16

(* The reads of a descriptor in log l: aw_h3_sdhost_process_desc reads the *)
(* whole descriptor, and no data chunk of these runs has its length        *)
DescReads(l) == {i \in Events(l, {"mem_read"}) : l[i].len = DescBytes}

RECURSIVE MovedIn(_, _, _)
(* The data bytes moved over the bus by the events lo..hi of log l (the    *)
(* range is split in halves: a walk of 64 KiB logs over a hundred events)  *)
MovedIn(l, lo, hi) ==
    IF lo > hi THEN 0
    ELSE IF lo = hi
    THEN (IF l[lo].ev \in {"read_data", "write_data"} THEN Len(l[lo].data) ELSE 0)
    ELSE MovedIn(l, lo, (lo + hi) \div 2) + MovedIn(l, ((lo + hi) \div 2) + 1, hi)

(* The bytes the first descriptor of the walk in l moved: those before the *)
(* second descriptor is read, or all where there is no second              *)
FirstDescMoved(l) ==
    LET first == CHOOSE i \in DescReads(l) : \A j \in DescReads(l) : i <= j
        later == DescReads(l) \ {first}
    IN  IF later = {} THEN MovedIn(l, 1, Len(l))
        ELSE MovedIn(l, 1, (CHOOSE i \in later : \A j \in later : i <= j) - 1)

(* C14: a descriptor whose size field is 0 moves min(65536, N) bytes when  *)
(* byte_count is N at entry, never 0 bytes; a walk over descriptors of     *)
(* size 0 visits one descriptor per 65536 bytes and ends with byte_count 0 *)
C14_ZeroSizeDescriptor ==
    [][(DmaWalked(call', log')
            /\ DescAt(mem, AddrPlus(s.desc_base, 0)).size = Zero) =>
            LET n == ToNat(s.byte_count)
            IN  /\ FirstDescMoved(log') = Min(65536, n)
                /\ FirstDescMoved(log') > 0
                /\ MovedIn(log', 1, Len(log')) = n
                /\ Cardinality(DescReads(log')) = (n + 65535) \div 65536
                /\ s'.byte_count = Zero]_vars

(* A read of more than 65536 bytes walked two descriptors of size 0: the   *)
(* first moved 65536 bytes and the second the rest                         *)
C14_Witness ==
    /\ DmaWalked(call, log)
    /\ ~Has(call.value, SD_CMDR_WRITE)
    /\ Cardinality(DescReads(log)) = 2
    /\ FirstDescMoved(log) = 65536
    /\ MovedIn(log, 1, Len(log)) = BigCount
    /\ s.desc_base = Zero
    /\ s.byte_count = Zero

(* C15: after every DMA walk that passed the entry conditions irq_status   *)
(* has DATA_COMPLETE and AUTOCMD_DONE set; dmac_status has TRANSMIT_IRQ    *)
(* set if the command had WRITE set, RECEIVE_IRQ and SUM_RECEIVE_IRQ if it *)
(* had WRITE clear, and no bit of the other direction is newly set.        *)
C15_DmaCompletion ==
    [][DmaWalked(call', log') =>
            /\ Or(SD_RISR_DATA_COMPLETE, SD_RISR_AUTOCMD_DONE) \subseteq s'.irq_status
            /\ IF Has(call'.value, SD_CMDR_WRITE)
               THEN /\ SD_IDST_TRANSMIT_IRQ \subseteq s'.dmac_status
                    /\ And(s'.dmac_status,
                           Or(SD_IDST_RECEIVE_IRQ, SD_IDST_SUM_RECEIVE_IRQ))
                            \subseteq s.dmac_status
               ELSE /\ Or(SD_IDST_RECEIVE_IRQ, SD_IDST_SUM_RECEIVE_IRQ)
                            \subseteq s'.dmac_status
                    /\ And(s'.dmac_status, SD_IDST_TRANSMIT_IRQ)
                            \subseteq s.dmac_status]_vars

(* A read of 8 bytes stopped at the LAST descriptor after 5: transfer_cnt  *)
(* is left at 3, and the completion bits are set all the same, with the    *)
(* receive bits and no transmit bit in dmac_status                         *)
C15_Witness ==
    /\ DmaWalked(call, log)
    /\ ~Has(call.value, SD_CMDR_WRITE)
    /\ s.transfer_cnt = FromNat(3)
    /\ s.dmac_status = Or(SD_IDST_RECEIVE_IRQ, SD_IDST_SUM_RECEIVE_IRQ)
    /\ s.irq_status = Or(SD_RISR_CMD_COMPLETE,
                         Or(SD_RISR_DATA_COMPLETE, SD_RISR_AUTOCMD_DONE))

(* C16: a write of v to the FIFO register sends exactly four bytes to the  *)
(* bus, the least significant byte of v first, whatever DMA_ENB,           *)
(* byte_count and the card state are; then transfer_cnt drops by 4 or to   *)
(* 0, then auto-stop runs, then the IRQ line is updated; directly after a  *)
(* write of 4 to BYCR it leaves transfer_cnt = 0 and DATA_COMPLETE and     *)
(* AUTOCMD_DONE set.                                                       *)
C16_FifoWrite ==
    [][IsWrite(call', {REG_SD_FIFO}) =>
            LET v == call'.value
                sent == BusBytes(log', "write_data")
                subs == Events(log', {"submit"})
            IN  /\ Len(sent) = 4
                /\ \A k \in 1..4 : sent[k] \in 0..255
                /\ sent[1] + 256 * sent[2] = Lo16(v)
                /\ sent[3] + 256 * sent[4] = Hi16(v)
                /\ Events(log', {"read_data", "mem_read", "mem_write",
                                 "data_ready"}) = {}
                /\ 31 \notin s'.transfer_cnt
                /\ ToNat(s'.transfer_cnt) =
                        IF ToNat(s.transfer_cnt) > 4
                        THEN ToNat(s.transfer_cnt) - 4 ELSE 0
                /\ Cardinality(subs) =
                        IF /\ Has(s'.command, SD_CMDR_AUTOSTOP)
                           /\ ~Has(s'.command, SD_CMDR_CLKCHANGE)
                           /\ s'.transfer_cnt = Zero
                        THEN 1 ELSE 0
                /\ \A i \in Events(log', {"write_data"}) : \A j \in subs : i < j
                /\ \A j \in subs : log'[j].before.transfer_cnt = s'.transfer_cnt
                /\ Events(log', {"set_irq"}) = {Len(log')}
                /\ irq' = IrqLevel(s')
                /\ (IsWrite(call, {REG_SD_BYCR}) /\ call.value = FromNat(4)) =>
                        /\ s'.transfer_cnt = Zero
                        /\ Or(SD_RISR_DATA_COMPLETE, SD_RISR_AUTOCMD_DONE)
                                \subseteq s'.irq_status]_vars

(* 0x80C0FFEE was written to the FIFO with the DMA engine enabled, the     *)
(* card removed and a byte count of 4: the count is at 0, the completion   *)
(* bits are set and on the IRQ line                                        *)
C16_Witness ==
    /\ IsWrite(call, {REG_SD_FIFO})
    /\ call.value = FifoWord
    /\ BusBytes(log, "write_data") = <<238, 255, 192, 128>>
    /\ Has(s.global_ctl, SD_GCTL_DMA_ENB)
    /\ ~Has(s.status, SD_STAR_CARD_PRESENT)
    /\ s.byte_count = FromNat(4)
    /\ s.transfer_cnt = Zero
    /\ s.command = Zero
    /\ irq = Or(SD_RISR_CARD_REMOVE,
                Or(SD_RISR_DATA_COMPLETE, SD_RISR_AUTOCMD_DONE))

(* The last call asked sdbus_data_ready and was told no *)
NoDataReady(l) == \E i \in Events(l, {"data_ready"}) : ~l[i].ready

(* C17: a read of the FIFO register when the bus reports no data ready     *)
(* returns 0, reads no byte from the bus, submits no command and changes   *)
(* no device state, nor the IRQ line.                                      *)
C17_FifoReadNoData ==
    [][(IsRead(call', {REG_SD_FIFO}) /\ NoDataReady(log')) =>
            /\ res' = Zero
            /\ Events(log', {"read_data", "write_data", "submit", "set_irq",
                             "mem_read", "mem_write"}) = {}
            /\ s' = s
            /\ irq' = irq
            /\ mem' = mem]_vars

(* The FIFO was read with no data ready while the command had AUTOSTOP     *)
(* set, transfer_cnt was 0 and the IRQ line was raised                     *)
C17_Witness ==
    /\ IsRead(call, {REG_SD_FIFO})
    /\ NoDataReady(log)
    /\ res = Zero
    /\ Has(s.command, SD_CMDR_AUTOSTOP)
    /\ s.transfer_cnt = Zero
    /\ irq # Zero

(* C18: set_inserted(true) sets CARD_INSERT and clears CARD_REMOVE in      *)
(* irq_status and sets CARD_PRESENT in status; set_inserted(false) clears  *)
(* CARD_INSERT, sets CARD_REMOVE and clears CARD_PRESENT; every other bit  *)
(* and register is unchanged and the IRQ line is re-evaluated.             *)
C18_SetInserted ==
    [][call'.op = "set_inserted" =>
            LET inserted == call'.value # Zero
            IN  /\ s' = [s EXCEPT
                            !.irq_status =
                                IF inserted
                                THEN (@ \cup SD_RISR_CARD_INSERT) \ SD_RISR_CARD_REMOVE
                                ELSE (@ \ SD_RISR_CARD_INSERT) \cup SD_RISR_CARD_REMOVE,
                            !.status =
                                IF inserted
                                THEN @ \cup SD_STAR_CARD_PRESENT
                                ELSE @ \ SD_STAR_CARD_PRESENT]
                /\ Len(log') = 1
                /\ log'[1] = [ev |-> "set_irq", level |-> IrqLevel(s')]
                /\ irq' = IrqLevel(s')
                /\ mem' = mem]_vars

(* The card was removed after an insertion, with the interrupt enabled and *)
(* unmasked and a command completed: the line carries CARD_REMOVE and no   *)
(* longer CARD_INSERT                                                      *)
C18_Witness ==
    /\ call.op = "set_inserted"
    /\ call.value = Zero
    /\ SD_RISR_CARD_REMOVE \subseteq irq
    /\ ~Has(irq, SD_RISR_CARD_INSERT)
    /\ Has(irq, SD_RISR_CMD_COMPLETE)
    /\ ~Has(s.status, SD_STAR_CARD_PRESENT)

(* The registers after reset: GCTL 0x300, TMOR 0xFFFFFF40, BKSR 0x200,     *)
(* BYCR 0x200, STAR 0x100, FWLR 0xF0000, A12A 0xFFFF, NTSR 1, HWRST 1, and *)
(* 0 in all others, in transfer_cnt and in response[0..3]                  *)
ResetRegisters ==
    [ZeroState EXCEPT
        !.global_ctl = FromNat(768),
        !.timeout = FromHL(65535, 65344),
        !.block_size = FromNat(512),
        !.byte_count = FromNat(512),
        !.status = FromNat(256),
        !.fifo_wlevel = FromNat(983040),
        !.auto12_arg = FromNat(65535),
        !.newtiming_set = FromNat(1),
        !.hardware_rst = FromNat(1)]

(* C19: reset, from any reachable state, sets every register to its reset  *)
(* constant, transfer_cnt to 0 (although byte_count resets to 0x200) and   *)
(* response[0..3] to 0, whatever the state before.                         *)
C19_Reset == [][call'.op = "reset" => s' = ResetRegisters]_vars

(* The device was reset after the guest had written registers: byte_count  *)
(* is back at 0x200 with transfer_cnt at 0                                 *)
C19_Witness ==
    /\ call.op = "reset"
    /\ nwrites = 2
    /\ s.byte_count = FromNat(512)
    /\ s.transfer_cnt = Zero
    /\ s.response = <<Zero, Zero, Zero, Zero>>

(* The offsets aw_h3_sdhost_read and aw_h3_sdhost_write have a case for *)
RegisterOffsets == WritableOffsets \cup CrcOffsets

(* C20: a read of an offset that is no register returns 0; a write to such *)
(* an offset, and a write of any value to a CRC register, changes no       *)
(* device state, does nothing on the bus and leaves the IRQ line; a read   *)
(* of a CRC register returns its stored value.                             *)
C20_IgnoredAccesses ==
    [][/\ (call'.op = "read" /\ call'.offset \notin RegisterOffsets) =>
            res' = Zero
       /\ (call'.op = "write"
                /\ (call'.offset \notin RegisterOffsets
                        \/ call'.offset \in CrcOffsets)) =>
            /\ s' = s
            /\ log' = <<>>
            /\ irq' = irq
            /\ mem' = mem
       /\ IsRead(call', {REG_SD_RES_CRC}) => res' = s.response_crc
       /\ IsRead(call', {REG_SD_CRC_STA}) => res' = s.status_crc
       /\ IsRead(call', CrcDataOffsets) =>
            res' = s.data_crc[((call'.offset - REG_SD_DATA7_CRC) \div 4) + 1]]_vars

(* 0xFFFFFFFF was written to the CRC register of data line 5 while the IRQ *)
(* line was raised and a transfer was under way                            *)
C20_Witness ==
    /\ IsWrite(call, {REG_SD_DATA7_CRC + 8})
    /\ call.value = AllBits
    /\ s.data_crc = [i \in 1..8 |-> Zero]
    /\ s.transfer_cnt = FromNat(2)
    /\ irq # Zero

(* C21: clock control unit. A write to a PLL control register whose value  *)
(* has ENABLE (bit 31) set is stored with LOCK (bit 28) set and the other  *)
(* bits as written; every other write to a register in range stores the   *)
(* value unmodified; no write changes another register, and a read         *)
(* returns the register as stored.                                         *)
C21_PllLock ==
    [][LET o == call'.offset
           v == call'.value
           idx == REG_INDEX(o)
           locks == o \in PllControl /\ 31 \in v
       IN  /\ (call'.op = "clk_write" /\ idx < AW_H3_CLK_REGS_NUM) =>
                /\ \A b \in AllBits :
                        b \in clk'[idx] <=> (b \in v \/ (b = 28 /\ locks))
                /\ \A j \in DOMAIN clk : j # idx => clk'[j] = clk[j]
           /\ (call'.op = "clk_read" /\ idx < AW_H3_CLK_REGS_NUM) =>
                res' = clk[idx] /\ clk' = clk]_vars

(* A PLL control register was written with ENABLE and without LOCK and     *)
(* holds LOCK *)
C21_Witness ==
    /\ call.op = "clk_write"
    /\ call.offset = REG_PLL_DE
    /\ call.value = Or(REG_PLL_ENABLE, {0, 12})
    /\ clk[REG_INDEX(REG_PLL_DE)] = {0, 12, 28, 31}

(* C22: system controller. A write to VER (0x24) changes no register and   *)
(* VER reads its reset value; a read past the last register returns 0 and  *)
(* a write there changes no register; every other write stores the value   *)
(* in its register and changes no other.                                   *)
C22_SysconVer ==
    [][LET o == call'.offset
           v == call'.value
           idx == REG_INDEX(o)
           inside == idx < AW_H3_SYSCON_REGS_NUM
       IN  /\ call'.op = "syscon_write" =>
                IF o = REG_VER \/ ~inside
                THEN syscon' = syscon
                ELSE /\ syscon'[idx] = v
                     /\ \A j \in DOMAIN syscon : j # idx => syscon'[j] = syscon[j]
           /\ call'.op = "syscon_read" =>
                /\ syscon' = syscon
                /\ o = REG_VER => res' = FromNat(REG_VER_RST)
                /\ ~inside => res' = Zero
                /\ inside => res' = syscon[idx]]_vars

(* VER was written with all ones and still holds its reset value, beside   *)
(* a register that took a write *)
C22_Witness ==
    /\ call.op = "syscon_write"
    /\ call.offset = REG_VER
    /\ call.value = AllBits
    /\ syscon[REG_INDEX(REG_VER)] = FromNat(REG_VER_RST)
    /\ syscon[REG_INDEX(REG_EMAC_PHY_CLK)] = {0}

(* C23: transfer_cnt <= byte_count, as unsigned numbers, in every state    *)
(* reached from reset by register accesses and card events.                *)
C23_CountWithinByteCount == ~LtU(s.byte_count, s.transfer_cnt)

(* Both counts were set by a BYCR write, a FIFO transfer lowered           *)
(* transfer_cnt alone, and a DMA walk that stopped at LAST lowered both    *)
C23_Witness ==
    /\ IsWrite(call, {REG_SD_CMDR})
    /\ Events(log, {"mem_read", "mem_write"}) # {}
    /\ s.transfer_cnt = Zero
    /\ s.byte_count = FromNat(3)

(* The call served last moved data: a FIFO write, a FIFO read that found   *)
(* data ready, or a command whose DMA walk processed a descriptor          *)
Transferred ==
    \/ IsWrite(call, {REG_SD_FIFO})
    \/ IsRead(call, {REG_SD_FIFO}) /\ Events(log, {"read_data"}) # {}
    \/ IsWrite(call, {REG_SD_CMDR}) /\ Events(log, {"mem_read", "mem_write"}) # {}

(* C24, as claimed: in every reachable state transfer_cnt == 0 implies     *)
(* that DATA_COMPLETE and AUTOCMD_DONE are set in irq_status.              *)
C24_Original == s.transfer_cnt = Zero => CntDone \subseteq s.irq_status

(* C24: on return from an access that moved data (a FIFO write, a FIFO     *)
(* read with data ready, a command whose DMA walk processed a descriptor)  *)
(* transfer_cnt == 0 implies that DATA_COMPLETE and AUTOCMD_DONE are set   *)
(* in irq_status.                                                          *)
C24_ZeroCountAfterTransfer ==
    (Transferred /\ s.transfer_cnt = Zero) => CntDone \subseteq s.irq_status

(* A FIFO read took the last four bytes of the count and left both bits set *)
C24_Witness ==
    /\ IsRead(call, {REG_SD_FIFO})
    /\ Events(log, {"read_data"}) # {}
    /\ s.transfer_cnt = Zero
    /\ s.byte_count = FromNat(4)
    /\ CntDone \subseteq s.irq_status

(* C25: on a CMDR write with LOAD, if byte_count is 0, or block_size is 0, *)
(* or DMA_ENB is clear in global_ctl, or the command has WRITE clear and   *)
(* the bus reports no data ready, the DMA step does nothing: no descriptor *)
(* is read, guest memory is not written, no data byte moves on the bus,    *)
(* byte_count, transfer_cnt and dmac_status keep their values, and         *)
(* DATA_COMPLETE and AUTOCMD_DONE are as they were.                        *)
C25_DmaEntry ==
    [][(/\ IsWrite(call', {REG_SD_CMDR})
        /\ Has(call'.value, SD_CMDR_LOAD)
        /\ \/ s.byte_count = Zero
           \/ s.block_size = Zero
           \/ ~Has(s.global_ctl, SD_GCTL_DMA_ENB)
           \/ ~Has(call'.value, SD_CMDR_WRITE) /\ NoDataReady(log'))
       => /\ Events(log', {"mem_read", "mem_write", "read_data", "write_data"}) = {}
          /\ mem' = mem
          /\ s'.byte_count = s.byte_count
          /\ s'.transfer_cnt = s.transfer_cnt
          /\ s'.dmac_status = s.dmac_status
          /\ And(s'.irq_status, CntDone) = And(s.irq_status, CntDone)]_vars

(* A read command found the engine enabled, 4 bytes to move, a block size  *)
(* and a descriptor list, and the bus without data: nothing moved          *)
C25_Witness ==
    /\ IsWrite(call, {REG_SD_CMDR})
    /\ ~Has(call.value, SD_CMDR_WRITE)
    /\ NoDataReady(log)
    /\ DmaPossible(s)
    /\ s.desc_base = FromNat(RamBase)
    /\ s.byte_count = FromNat(4)
    /\ s.dmac_status = Zero

(* The number of descriptor passes of the walk in log l that moved no byte: *)
(* descriptor reads directly followed by the write-back                    *)
IdlePasses(l) ==
    {i \in DescReads(l) : i + 1 \in DOMAIN l => l[i + 1].ev \notin
                            {"read_data", "write_data", "mem_read"}}

(* C26: a DMA walk ends, whatever the descriptor list: with or without     *)
(* LAST, cyclic, with a descriptor of size 0. Every descriptor processed   *)
(* moves at least one byte, byte_count drops by the bytes moved, and the   *)
(* walk processes at most as many descriptors as byte_count held at entry. *)
C26_WalkTerminates ==
    [][DmaWalked(call', log') =>
            /\ IdlePasses(log') = {}
            /\ ToNat(s'.byte_count) = ToNat(s.byte_count) - MovedIn(log', 1, Len(log'))
            /\ Cardinality(DescReads(log')) <= ToNat(s.byte_count)
            /\ Cardinality(DescReads(log')) >= 1]_vars

(* A walk of 8 bytes went round a cycle of two descriptors without LAST,   *)
(* passed the first descriptor a second time and ended with byte_count 0   *)
C26_Witness ==
    /\ DmaWalked(call, log)
    /\ Cardinality(DescReads(log)) = 3
    /\ MovedIn(log, 1, Len(log)) = 8
    /\ s.byte_count = Zero

(* Where the descriptors of the lists of SpecChain lie *)
ChainAddrs == {RamBase, RamBase + 16, RamBase + 32}

(* The descriptor at a was processed by the walk in log l *)
Processed(l, a) == \E i \in DescReads(l) : l[i].addr = a

(* The descriptor at a after the walk is the one before it but for HOLD,   *)
(* and so are the 16 bytes of every write-back to a                        *)
WrittenBack(l, before, after, a) ==
    /\ after = [before EXCEPT !.status = @ \ DESC_STATUS_HOLD]
    /\ \A j \in Events(l, {"mem_write"}) :
            l[j].addr = a => l[j].data = BytesOfDesc(after)

(* C27: every descriptor processed by a walk is written back to its        *)
(* address as it was read with only the HOLD bit of status cleared: size,  *)
(* addr, next and the other status flags are unchanged, also when size was *)
(* 0; descriptors the walk did not reach are not modified.                 *)
C27_DescriptorWriteBack ==
    [][DmaWalked(call', log') =>
            \A a \in ChainAddrs :
                IF Processed(log', a)
                THEN WrittenBack(log', DescAt(mem, a), DescAt(mem', a), a)
                ELSE DescAt(mem', a) = DescAt(mem, a)]_vars

RECURSIVE WalkAddrs(_, _, _)
(* The descriptors a walk passes that enters the list in memory at a with  *)
(* n bytes to go: it ends behind the first descriptor with LAST, and       *)
(* otherwise follows next while bytes are left                             *)
WalkAddrs(memory, a, n) ==
    IF n = 0 THEN <<>>
    ELSE LET desc == DescAt(memory, AddrPlus(a, 0))
         IN  <<AddrPlus(a, 0)>>
                \o (IF Has(desc.status, DESC_STATUS_LAST) THEN <<>>
                    ELSE WalkAddrs(memory, desc.next, n - Min(DescSize(desc), n)))

(* The addresses of the descriptors read in log l, in order *)
ReadAddrs(l) ==
    LET f[i \in 0..Len(l)] ==
            IF i = 0 THEN <<>>
            ELSE f[i - 1] \o (IF i \in DescReads(l) THEN <<l[i].addr>> ELSE <<>>)
    IN  f[Len(l)]

(* C28: a walk stops behind the first descriptor whose status has LAST,    *)
(* also with byte_count above 0: no later descriptor is read or written,   *)
(* byte_count and transfer_cnt keep what was not moved; CHAIN, FIRST and   *)
(* NOIRQ do not change the walk; without LAST the walk follows next until  *)
(* byte_count is 0.                                                        *)
C28_WalkStopsAtLast ==
    [][DmaWalked(call', log') =>
        LET n == ToNat(s.byte_count)
            walk == WalkAddrs(mem, s.desc_base, n)
            left == n - MovedIn(log', 1, Len(log'))
            last == DescAt(mem, walk[Len(walk)])
        IN  /\ ReadAddrs(log') = walk
            /\ \A a \in ChainAddrs \ {walk[i] : i \in DOMAIN walk} :
                    DescAt(mem', a) = DescAt(mem, a)
            /\ s'.byte_count = FromNat(left)
            /\ s'.transfer_cnt =
                    FromNat(IF ToNat(s.transfer_cnt) > n - left
                            THEN ToNat(s.transfer_cnt) - (n - left) ELSE 0)
            /\ left > 0 => Has(last.status, DESC_STATUS_LAST)
            /\ ~Has(last.status, DESC_STATUS_LAST) => s'.byte_count = Zero]_vars

(* A walk of 8 bytes ended behind the second descriptor, which has LAST,   *)
(* after 3 bytes: 5 are left and the third descriptor still has HOLD       *)
C28_Witness ==
    /\ DmaWalked(call, log)
    /\ Len(ReadAddrs(log)) = 2
    /\ s.byte_count = FromNat(5)
    /\ s.transfer_cnt = FromNat(5)
    /\ Has(DescAt(mem, RamBase + 16).status, DESC_STATUS_LAST)
    /\ Has(DescAt(mem, RamBase + 32).status, DESC_STATUS_HOLD)

(* C29: a write of v to IDST clears in dmac_status exactly the bits set in *)
(* v among bits 0..9: dmac_status' = dmac_status & ~(v & 0x3FF). Bits      *)
(* above bit 9 and bits whose bit of v is 0 keep their value; no bit is    *)
(* set.                                                                    *)
C29_IdstWrite ==
    [][IsWrite(call', {REG_SD_IDST}) =>
            \A b \in AllBits :
                b \in s'.dmac_status <=>
                    (b \in s.dmac_status /\ ~(b \in call'.value /\ b <= 9))]_vars

(* All ones were written over a status of all ones: bits 10..31 are left *)
C29_Witness ==
    /\ IsWrite(call, {REG_SD_IDST})
    /\ call.value = AllBits
    /\ s.dmac_status = 10..31

(* The fields of the device that differ between the register records a, b *)
Changed(a, b) == {f \in DOMAIN a : a[f] # b[f]}

(* C30: for each of CKCR, TMOR, BWDR, BKSR, CAGR, RESP0..3, FWLR, FUNS,    *)
(* DBGC, A12A, NTSR, SDBG, HWRST, DLBA, THLDC and DSBD a write of v        *)
(* followed by a read returns v; the write changes no other field, makes   *)
(* no call on the bus, on guest memory or on the IRQ line, and resets      *)
(* nothing (after a HWRST write every other register is as it was).        *)
C30_PlainStore ==
    [][/\ IsWrite(call', PlainOffsets) =>
            /\ Cardinality(Changed(s, s')) <= 1
            /\ Cardinality({k \in 1..4 : s'.response[k] # s.response[k]}) <= 1
            /\ log' = <<>>
            /\ mem' = mem
            /\ irq' = irq
       /\ (IsRead(call', PlainOffsets) /\ IsWrite(call, {call'.offset})) =>
            /\ res' = call.value
            /\ s' = s
            /\ log' = <<>>]_vars

(* HWRST was written after CKCR and reads back what was written, and CKCR  *)
(* still holds its value *)
C30_Witness ==
    /\ IsRead(call, {REG_SD_HWRST})
    /\ res = VmValue(REG_SD_HWRST)
    /\ s.hardware_rst = VmValue(REG_SD_HWRST)
    /\ s.clock_ctl = VmValue(REG_SD_CKCR)

---------------------------------------------------------------------------
(* What the DMA engine does on the SD bus and in guest RAM *)
DmaKinds == {"data_ready", "mem_read", "mem_write", "read_data", "write_data"}

(* C31: one CMDR write with LOAD submits the guest's command first (a      *)
(* clock change submits nothing), then does all of the DMA engine's bus    *)
(* and memory accesses, then submits the stop command if one is due, then  *)
(* drives the IRQ line once, with the level of the registers as the call   *)
(* leaves them; the DMA walk and the stop command run whether or not the   *)
(* command was answered; a register read that follows returns the          *)
(* registers as the call left them.                                        *)
C31_CmdrOrdering ==
    [][/\ (IsWrite(call', {REG_SD_CMDR}) /\ Has(call'.value, SD_CMDR_LOAD)) =>
            LET l == log'
                last == Len(l)
                bus == ~Has(call'.value, SD_CMDR_CLKCHANGE)
                subs == Events(l, {"submit"})
                stops == StopSubmits(call', l)
                dma == Events(l, DmaKinds)
            IN  /\ Events(l, {"set_irq"}) = {last}
                /\ l[last].level = IrqLevel(s')
                /\ irq' = IrqLevel(s')
                /\ subs = (IF bus THEN {1} \cup stops ELSE {})
                /\ bus => l[1].cmd = ToNat(And(call'.value, SD_CMDR_CMDID_MASK))
                /\ Cardinality(stops) <= 1
                /\ \A i \in stops : l[i].cmd = 12 /\ i = last - 1
                /\ \A j \in dma :
                        /\ bus => 1 < j
                        /\ j < last
                        /\ \A i \in stops : j < i
                /\ (dma # {}) = DmaPossible(s)
                /\ (stops # {}) = (/\ bus
                                   /\ Has(call'.value, SD_CMDR_AUTOSTOP)
                                   /\ s'.transfer_cnt = Zero)
                /\ ~Has(s'.command, SD_CMDR_LOAD)
       /\ IsRead(call', {REG_SD_CMDR}) => res' = s.command /\ s' = s
       /\ IsRead(call', {REG_SD_CAGR}) => res' = s.command_arg /\ s' = s]_vars

(* A write command with AUTOSTOP was loaded and not answered; the DMA walk *)
(* moved its 8 bytes all the same, and the stop command followed           *)
C31_Witness ==
    /\ IsWrite(call, {REG_SD_CMDR})
    /\ Has(call.value, SD_CMDR_LOAD)
    /\ log[1].ev = "submit"
    /\ log[1].rlen < 0
    /\ Has(s.irq_status, SD_RISR_NO_RESPONSE)
    /\ Moved = 8
    /\ StopSubmits(call, log) # {}
    /\ log[Len(log)].ev = "set_irq"

(* The last call read the FIFO and sdbus_data_ready answered yes *)
DataReady(l) == \E i \in Events(l, {"data_ready"}) : l[i].ready

(* C32: a read of the FIFO register when the bus reports data ready reads  *)
(* four bytes b0, b1, b2, b3 from the bus and nothing else, returns        *)
(* b0 | b1 << 8 | b2 << 16 | b3 << 24, lowers transfer_cnt by 4 or to 0,   *)
(* then runs auto-stop, then updates the IRQ line; a FIFO read and a FIFO  *)
(* write leave byte_count as it was.                                       *)
C32_FifoRead ==
    [][/\ (IsRead(call', {REG_SD_FIFO}) /\ DataReady(log')) =>
            LET got == BusBytes(log', "read_data")
                reads == Events(log', {"read_data"})
                subs == Events(log', {"submit"})
            IN  /\ Len(got) = 4
                /\ \A k \in 1..4 : got[k] \in 0..255
                /\ Lo16(res') = got[1] + 256 * got[2]
                /\ Hi16(res') = got[3] + 256 * got[4]
                /\ Events(log', {"write_data", "mem_read", "mem_write"}) = {}
                /\ Events(log', {"data_ready"}) = {1}
                /\ 31 \notin s'.transfer_cnt
                /\ ToNat(s'.transfer_cnt) =
                        IF ToNat(s.transfer_cnt) > 4
                        THEN ToNat(s.transfer_cnt) - 4 ELSE 0
                /\ Cardinality(subs) =
                        IF /\ Has(s'.command, SD_CMDR_AUTOSTOP)
                           /\ ~Has(s'.command, SD_CMDR_CLKCHANGE)
                           /\ s'.transfer_cnt = Zero
                        THEN 1 ELSE 0
                /\ \A i \in reads : \A j \in subs : i < j
                /\ \A j \in subs : /\ log'[j].cmd = 12
                                   /\ log'[j].before.transfer_cnt = s'.transfer_cnt
                /\ Events(log', {"set_irq"}) = {Len(log')}
                /\ irq' = IrqLevel(s')
                /\ mem' = mem
       /\ (IsRead(call', {REG_SD_FIFO}) \/ IsWrite(call', {REG_SD_FIFO})) =>
            s'.byte_count = s.byte_count]_vars

(* The FIFO was read with 2 bytes left to count and a command with         *)
(* AUTOSTOP in place: the bytes ef be ad de came back as 0xDEADBEEF, the   *)
(* count went to 0, the stop command followed and the byte count stayed 6  *)
C32_Witness ==
    /\ IsRead(call, {REG_SD_FIFO})
    /\ BusBytes(log, "read_data") = <<239, 190, 173, 222>>
    /\ res = FromHL(57005, 48879)
    /\ s.transfer_cnt = Zero
    /\ s.byte_count = FromNat(6)
    /\ StopSubmits(call, log) # {}
    /\ Or(SD_RISR_DATA_COMPLETE, SD_RISR_AUTOCMD_DONE) \subseteq irq

(* C33: directly after every CMDR write with LOAD set, irq_status has      *)
(* CMD_COMPLETE or NO_RESPONSE set, whatever the SD bus returned: every    *)
(* loaded command is reported as completed or as unanswered.               *)
C33_CommandReported ==
    [][(IsWrite(call', {REG_SD_CMDR}) /\ Has(call'.value, SD_CMDR_LOAD)) =>
            Has(s'.irq_status, Or(SD_RISR_CMD_COMPLETE, SD_RISR_NO_RESPONSE))]_vars

(* A command expecting a long response was loaded with both bits clear and *)
(* answered with 8 bytes: NO_RESPONSE is the only bit set                  *)
C33_Witness ==
    /\ IsWrite(call, {REG_SD_CMDR})
    /\ Has(call.value, SD_CMDR_RESPONSE_LONG)
    /\ \E i \in Events(log, {"submit"}) :
            /\ log[i].rlen = 8
            /\ log[i].before.irq_status = Zero
    /\ s.irq_status = SD_RISR_NO_RESPONSE

(* C34: in every reachable state irq_status does not have CARD_INSERT and  *)
(* CARD_REMOVE set together, status has no bit set other than              *)
(* CARD_PRESENT, and dmac_status has no bit set other than TRANSMIT_IRQ,   *)
(* RECEIVE_IRQ and SUM_RECEIVE_IRQ.                                        *)
C34_StatusBits ==
    /\ ~(Has(s.irq_status, SD_RISR_CARD_INSERT)
            /\ Has(s.irq_status, SD_RISR_CARD_REMOVE))
    /\ s.status \subseteq SD_STAR_CARD_PRESENT
    /\ s.dmac_status \subseteq
            Or(SD_IDST_TRANSMIT_IRQ, Or(SD_IDST_RECEIVE_IRQ, SD_IDST_SUM_RECEIVE_IRQ))

(* The card was removed after DMA walks in both directions: CARD_REMOVE is *)
(* set without CARD_INSERT, CARD_PRESENT is clear and the three DMA bits   *)
(* are all set                                                             *)
C34_Witness ==
    /\ call.op = "set_inserted"
    /\ call.value = Zero
    /\ Has(s.irq_status, SD_RISR_CARD_REMOVE)
    /\ s.status = Zero
    /\ s.dmac_status =
            Or(SD_IDST_TRANSMIT_IRQ, Or(SD_IDST_RECEIVE_IRQ, SD_IDST_SUM_RECEIVE_IRQ))

(* C35: the interrupt status bits are sticky.  A CMDR write, a FIFO write  *)
(* and a FIFO read (command dispatch, DMA walk, auto-stop, FIFO transfer)  *)
(* clear no bit of irq_status or dmac_status; a bit of irq_status goes     *)
(* from set to clear only in a RISR or MISR write of a value naming the    *)
(* bit, in a reset, or, for CARD_REMOVE, in an insertion and, for          *)
(* CARD_INSERT, in a removal; a bit of dmac_status goes from set to clear  *)
(* only in an IDST write of a value naming the bit or in a reset.          *)
C35_StickyStatus ==
    [][LET lost == s.irq_status \ s'.irq_status
           lostd == s.dmac_status \ s'.dmac_status
       IN  /\ (IsWrite(call', {REG_SD_CMDR, REG_SD_FIFO})
                    \/ IsRead(call', {REG_SD_FIFO})) =>
                /\ lost = {}
                /\ lostd = {}
                /\ \A i \in Events(log', {"submit"}) :
                        log'[i].before.irq_status \subseteq log'[i].after.irq_status
           /\ lost # {} =>
                \/ IsWrite(call', {REG_SD_RISR, REG_SD_MISR})
                        /\ lost \subseteq call'.value
                \/ call'.op = "reset"
                \/ /\ call'.op = "set_inserted"
                   /\ lost = (IF call'.value # Zero
                              THEN SD_RISR_CARD_REMOVE ELSE SD_RISR_CARD_INSERT)
           /\ lostd # {} =>
                \/ IsWrite(call', {REG_SD_IDST})
                        /\ lostd \subseteq And(call'.value, SD_IDST_WR_MASK)
                \/ call'.op = "reset"]_vars

(* A read command was answered and its DMA walk ran while NO_RESPONSE from *)
(* an earlier command, CARD_INSERT and TRANSMIT_IRQ from an earlier walk   *)
(* were set: all three are still set beside the bits this call added       *)
C35_Witness ==
    /\ IsWrite(call, {REG_SD_CMDR})
    /\ ~Has(call.value, SD_CMDR_WRITE)
    /\ Events(log, {"submit"}) = {1}
    /\ log[1].rlen = 4
    /\ Has(log[1].before.irq_status, SD_RISR_NO_RESPONSE)
    /\ ~Has(log[1].before.irq_status, SD_RISR_CMD_COMPLETE)
    /\ Moved = 4
    /\ Or(SD_RISR_NO_RESPONSE, Or(SD_RISR_CMD_COMPLETE, SD_RISR_CARD_INSERT))
            \subseteq s.irq_status
    /\ s.dmac_status =
            Or(SD_IDST_TRANSMIT_IRQ, Or(SD_IDST_RECEIVE_IRQ, SD_IDST_SUM_RECEIVE_IRQ))

(* What a DMA walk and the commands after it do to the byte count, but for *)
(* the steps that may take byte_count from 0 to another value.  A walk     *)
(* whose last descriptor has no LAST leaves byte_count = 0; a walk whose   *)
(* last descriptor has LAST leaves what it did not move; BYCR reads        *)
(* byte_count; a CMDR write with LOAD that finds byte_count = 0 reads no   *)
(* descriptor, moves no data, asks nothing of the bus but the command and  *)
(* sets no bit of dmac_status.                                             *)
WalkConsumes ==
    /\ DmaWalked(call', log') =>
            LET n == ToNat(s.byte_count)
                reads == ReadAddrs(log')
                last == DescAt(mem, reads[Len(reads)])
                left == n - MovedIn(log', 1, Len(log'))
            IN  /\ reads # <<>>
                /\ s'.byte_count = FromNat(left)
                /\ ~Has(last.status, DESC_STATUS_LAST) => s'.byte_count = Zero
    /\ IsRead(call', {REG_SD_BYCR}) => (res' = s.byte_count /\ s' = s)
    /\ (/\ IsWrite(call', {REG_SD_CMDR})
        /\ Has(call'.value, SD_CMDR_LOAD)
        /\ s.byte_count = Zero) =>
            /\ Events(log', DmaKinds) = {}
            /\ s'.dmac_status = s.dmac_status
            /\ s'.byte_count = Zero
            /\ mem' = mem

(* C36 as stated: once byte_count is 0 it stays 0, and with it no command  *)
(* performs DMA, until the guest writes a non-zero value to BYCR.          *)
C36_Original ==
    [][/\ WalkConsumes
       /\ (s.byte_count = Zero /\ s'.byte_count # Zero) =>
            (IsWrite(call', {REG_SD_BYCR}) /\ call'.value # Zero)]_vars

(* C36: a DMA walk consumes byte_count.  After a walk that does not end at *)
(* a LAST descriptor BYCR reads 0, after one that does it reads what was   *)
(* not moved; a CMDR write with LOAD that finds byte_count = 0 performs no *)
(* DMA; byte_count leaves 0 only when the guest writes a non-zero value to *)
(* BYCR or when the device is reset, which sets it to 0x200.               *)
C36_WalkConsumesByteCount ==
    [][/\ WalkConsumes
       /\ (s.byte_count = Zero /\ s'.byte_count # Zero) =>
            \/ IsWrite(call', {REG_SD_BYCR}) /\ s'.byte_count = call'.value
            \/ call'.op = "reset" /\ s'.byte_count = REG_SD_BYCR_RST]_vars

(* A write command was loaded with the DMA engine enabled after an earlier *)
(* walk had used up the byte count: nothing was asked of the DMA engine    *)
C36_Witness ==
    /\ IsWrite(call, {REG_SD_CMDR})
    /\ Has(call.value, SD_CMDR_LOAD)
    /\ Has(call.value, SD_CMDR_WRITE)
    /\ Has(s.global_ctl, SD_GCTL_DMA_ENB)
    /\ s.block_size # Zero
    /\ s.byte_count = Zero
    /\ Events(log, DmaKinds) = {}
    /\ Events(log, {"submit"}) = {1}
    /\ s.dmac_status = SD_IDST_TRANSMIT_IRQ

=============================================================================
